---------------------------- MODULE Spec2Model ----------------------------
(***************************************************************************)
(* Student Finance Tracker: the store (state.js), the rule engine          *)
(* (validators.js), the persistence layer (storage.js) and the handlers of *)
(* ui.js that drive the store.                                             *)
(*                                                                         *)
(* Representation.                                                         *)
(*  - A JavaScript string is a sequence of one-character strings, so that  *)
(*    the regular expressions of validators.js and the search matcher are  *)
(*    evaluated character by character.                                    *)
(*  - A JavaScript number holding an amount is an integer count of         *)
(*    thousandths (12.5 is 12500); NaN is the integer NaN, below every     *)
(*    number the model computes.                                           *)
(*  - A transaction id 'txn_<n>' of the seed data is the integer n; an id  *)
(*    made by generateId is GeneratedIdBase plus the clock reading it was  *)
(*    made at.                                                             *)
(*  - A timestamp is the reading of the clock, a natural number.           *)
(***************************************************************************)
EXTENDS Integers, Sequences, FiniteSets, TLC

(***************************************************************************)
(* Characters                                                              *)
(***************************************************************************)
LowerLetters == <<"a","b","c","d","e","f","g","h","i","j","k","l","m",
                  "n","o","p","q","r","s","t","u","v","w","x","y","z">>

UpperLetters == <<"A","B","C","D","E","F","G","H","I","J","K","L","M",
                  "N","O","P","Q","R","S","T","U","V","W","X","Y","Z">>

Digits == <<"0","1","2","3","4","5","6","7","8","9">>

Range(s) == { s[i] : i \in DOMAIN s }

LowerSet == Range(LowerLetters)

UpperSet == Range(UpperLetters)

DigitSet == Range(Digits)

\* each letter of one case to the letter of the other
UpperOf == [c \in LowerSet |-> UpperLetters[CHOOSE i \in DOMAIN LowerLetters : LowerLetters[i] = c]]

LowerOf == [c \in UpperSet |-> LowerLetters[CHOOSE i \in DOMAIN UpperLetters : UpperLetters[i] = c]]

DigitVal == [c \in DigitSet |-> (CHOOSE i \in DOMAIN Digits : Digits[i] = c) - 1]

IsLower(c) == c \in LowerSet

IsUpper(c) == c \in UpperSet

\* [A-Za-z]
IsLetter(c) == IsLower(c) \/ IsUpper(c)

\* \d
IsDigit(c) == c \in DigitSet

\* \s
IsSpace(c) == c \in {" ", "\t", "\n"}

\* what . does not match
IsLineTerminator(c) == c = "\n"

\* \w
IsWordChar(c) == IsLetter(c) \/ IsDigit(c) \/ c = "_"

toUpperCase(c) == IF IsLower(c) THEN UpperOf[c] ELSE c

toLowerCase(c) == IF IsUpper(c) THEN LowerOf[c] ELSE c

AllDigits(s) == \A i \in DOMAIN s : IsDigit(s[i])

\* the number NaN
NaN == 0 - 2147483647

\* the value of a run of decimal digits
RECURSIVE NatOf(_)
NatOf(s) == IF s = <<>> THEN 0
            ELSE 10 * NatOf(SubSeq(s, 1, Len(s) - 1)) + DigitVal[s[Len(s)]]

(***************************************************************************)
(* validators.js                                                           *)
(***************************************************************************)

\* description.replace(/\s+/g, ' ')
RECURSIVE CollapseSpaces(_, _)
CollapseSpaces(s, i) ==
    IF i > Len(s) THEN <<>>
    ELSE IF IsSpace(s[i])
         THEN (IF i > 1 /\ IsSpace(s[i-1]) THEN <<>> ELSE <<" ">>)
              \o CollapseSpaces(s, i + 1)
         ELSE <<s[i]>> \o CollapseSpaces(s, i + 1)

\* /^\S(?:.*\S)?$/
DescriptionPattern(s) ==
    /\ Len(s) >= 1
    /\ ~IsSpace(s[1])
    /\ \/ Len(s) = 1
       \/ /\ ~IsSpace(s[Len(s)])
          /\ \A i \in 2..(Len(s) - 1) : ~IsLineTerminator(s[i])

\* /\s{2,}/
HasDoubleSpaces(s) == \E i \in 1..(Len(s) - 1) : IsSpace(s[i]) /\ IsSpace(s[i+1])

validateDescription(description) ==
    IF ~DescriptionPattern(description)
    THEN [valid |-> FALSE, message |-> "Description cannot start or end with spaces"]
    ELSE IF HasDoubleSpaces(description)
    THEN [valid |-> FALSE, message |-> "Description cannot contain double spaces"]
    ELSE [valid |-> TRUE, message |-> "", cleaned |-> CollapseSpaces(description, 1)]

\* the index of the first "." of s, or 0
DotIndex(s) == IF \E i \in DOMAIN s : s[i] = "."
               THEN CHOOSE i \in DOMAIN s : s[i] = "." /\ \A j \in 1..(i-1) : s[j] # "."
               ELSE 0

\* /^(0|[1-9]\d*)(\.\d+)?$/: a fraction of any length
AmountPattern_anyFraction(s) ==
    LET dot == DotIndex(s)
        whole == IF dot = 0 THEN s ELSE SubSeq(s, 1, dot - 1)
        frac == IF dot = 0 THEN <<>> ELSE SubSeq(s, dot + 1, Len(s))
    IN /\ Len(whole) >= 1
       /\ AllDigits(whole)
       /\ (whole = <<"0">> \/ whole[1] # "0")
       /\ dot # 0 => (Len(frac) >= 1 /\ AllDigits(frac))

\* /^(0|[1-9]\d*)(\.\d{1,2})?$/
AmountPattern(s) ==
    LET dot == DotIndex(s)
        whole == IF dot = 0 THEN s ELSE SubSeq(s, 1, dot - 1)
        frac == IF dot = 0 THEN <<>> ELSE SubSeq(s, dot + 1, Len(s))
    IN /\ Len(whole) >= 1
       /\ AllDigits(whole)
       /\ (whole = <<"0">> \/ whole[1] # "0")
       /\ dot # 0 => (Len(frac) \in 1..2 /\ AllDigits(frac))

\* the end (exclusive) of the run of digits of s that starts at i
RECURSIVE DigitsEnd(_, _)
DigitsEnd(s, i) == IF i <= Len(s) /\ IsDigit(s[i]) THEN DigitsEnd(s, i + 1) ELSE i

RECURSIVE SkipSpaces(_, _)
SkipSpaces(s, i) == IF i <= Len(s) /\ IsSpace(s[i]) THEN SkipSpaces(s, i + 1) ELSE i

\* parseFloat: leading white space, a sign, digits, a fraction (its first three
\* digits: the unit is the thousandth); NaN when no digit is read
parseFloat(s) ==
    LET b == SkipSpaces(s, 1)
        neg == b <= Len(s) /\ s[b] = "-"
        d == IF b <= Len(s) /\ s[b] \in {"-", "+"} THEN b + 1 ELSE b
        e == DigitsEnd(s, d)
        hasFrac == e <= Len(s) /\ s[e] = "."
        f == IF hasFrac THEN DigitsEnd(s, e + 1) ELSE e
        whole == SubSeq(s, d, e - 1)
        frac == IF hasFrac THEN SubSeq(s, e + 1, f - 1) ELSE <<>>
        frac3 == SubSeq(frac \o <<"0","0","0">>, 1, 3)
        magnitude == NatOf(whole) * 1000 + NatOf(frac3)
    IN IF whole = <<>> /\ frac = <<>> THEN NaN
       ELSE IF neg THEN 0 - magnitude ELSE magnitude

\* 1,000,000 in thousandths
AmountLimit == 1000000 * 1000

validateAmount(amount) ==
    LET numValue == parseFloat(amount)
    IN IF ~AmountPattern(amount)
       THEN [valid |-> FALSE,
             message |-> "Amount must be a positive number with up to 2 decimals (e.g., 10, 10.50)"]
       ELSE IF numValue # NaN /\ numValue > AmountLimit
       THEN [valid |-> FALSE, message |-> "Amount cannot exceed 1,000,000"]
       ELSE [valid |-> TRUE, message |-> "", value |-> numValue]

\* /^\d{4}-(0[1-9]|1[0-2])-(0[1-9]|[12]\d|3[01])$/
DatePattern(s) ==
    /\ Len(s) = 10
    /\ AllDigits(SubSeq(s, 1, 4))
    /\ s[5] = "-"
    /\ AllDigits(SubSeq(s, 6, 7))
    /\ NatOf(SubSeq(s, 6, 7)) \in 1..12
    /\ s[8] = "-"
    /\ AllDigits(SubSeq(s, 9, 10))
    /\ NatOf(SubSeq(s, 9, 10)) \in 1..31

IsLeapYear(y) == (y % 4 = 0 /\ y % 100 # 0) \/ y % 400 = 0

DaysInMonth(y, m) ==
    IF m = 2 THEN (IF IsLeapYear(y) THEN 29 ELSE 28)
    ELSE IF m \in {4, 6, 9, 11} THEN 30 ELSE 31

\* new Date(year, month - 1, day) read back: a day past the month's end rolls
\* into the next month, and a year below 100 is taken as 1900 + year
DateRoundTrips(year, month, day) == year >= 100 /\ day <= DaysInMonth(year, month)

validateDate(date) ==
    IF ~DatePattern(date)
    THEN [valid |-> FALSE, message |-> "Date must be in YYYY-MM-DD format"]
    ELSE IF ~DateRoundTrips(NatOf(SubSeq(date, 1, 4)), NatOf(SubSeq(date, 6, 7)),
                            NatOf(SubSeq(date, 9, 10)))
    THEN [valid |-> FALSE, message |-> "Invalid date"]
    ELSE [valid |-> TRUE, message |-> ""]

\* /^[A-Za-z]+(?:[ -][A-Za-z]+)*$/
CategoryPattern(s) ==
    /\ Len(s) >= 1
    /\ IsLetter(s[1])
    /\ IsLetter(s[Len(s)])
    /\ \A i \in DOMAIN s : IsLetter(s[i]) \/ s[i] \in {" ", "-"}
    /\ \A i \in 1..(Len(s) - 1) : IsLetter(s[i]) \/ IsLetter(s[i+1])

\* category.charAt(0).toUpperCase() + category.slice(1).toLowerCase()
Capitalize(s) == [i \in DOMAIN s |-> IF i = 1 THEN toUpperCase(s[i]) ELSE toLowerCase(s[i])]

validateCategory(category) ==
    IF ~CategoryPattern(category)
    THEN [valid |-> FALSE, message |-> "Category must contain only letters, spaces, and hyphens"]
    ELSE IF Len(category) < 2
    THEN [valid |-> FALSE, message |-> "Category must be at least 2 characters long"]
    ELSE [valid |-> TRUE, message |-> "", cleaned |-> Capitalize(category)]

\* \b between the characters at the indices k and k + 1 of s: one of them
\* is a word character and the other is not, or is beyond the text
IsWordBoundary(s, k) ==
    (k >= 1 /\ k <= Len(s) /\ IsWordChar(s[k]))
    # (k + 1 >= 1 /\ k + 1 <= Len(s) /\ IsWordChar(s[k + 1]))

\* /\b(\w+)\s+\1\b/i: a word from i to j, whitespace up to k, and from k the
\* same characters whatever their case, up to the end of a word
hasDuplicateWords(text) ==
    \E i \in DOMAIN text : \E j \in i..Len(text) : \E k \in (j + 2)..Len(text) :
       /\ IsWordBoundary(text, i - 1)
       /\ \A m \in i..j : IsWordChar(text[m])
       /\ \A m \in (j + 1)..(k - 1) : IsSpace(text[m])
       /\ k + (j - i) <= Len(text)
       /\ \A m \in 0..(j - i) : toUpperCase(text[i + m]) = toUpperCase(text[k + m])
       /\ IsWordBoundary(text, k + (j - i))

\* /\.\d{2}\b/ of amount.toString()
hasCents(amount) ==
    \E i \in DOMAIN amount :
       /\ amount[i] = "."
       /\ i + 2 <= Len(amount)
       /\ IsDigit(amount[i + 1])
       /\ IsDigit(amount[i + 2])
       /\ IsWordBoundary(amount, i + 2)

\* coffee|tea|soda|juice|water
BeverageKeywords ==
    { <<"c","o","f","f","e","e">>, <<"t","e","a">>, <<"s","o","d","a">>,
      <<"j","u","i","c","e">>, <<"w","a","t","e","r">> }

\* /(?=.*\b(coffee|tea|soda|juice|water)\b)/i: one of the keywords as a
\* whole word anywhere in the description, whatever its case
isBeverageTransaction(description) ==
    \E keyword \in BeverageKeywords : \E at \in 0..(Len(description) - Len(keyword)) :
       /\ IsWordBoundary(description, at)
       /\ \A m \in DOMAIN keyword :
             toUpperCase(description[at + m]) = toUpperCase(keyword[m])
       /\ IsWordBoundary(description, at + Len(keyword))

\* the warnings of validateTransaction, as the two assignments to
\* warnings.description give them when they are reported apart
WarningsOf_both(formData) ==
    [f \in { f \in {"duplicate", "description", "amount"} :
                \/ f = "duplicate" /\ formData.description # <<>>
                                   /\ hasDuplicateWords(formData.description)
                \/ f = "description" /\ formData.description # <<>>
                                     /\ isBeverageTransaction(formData.description)
                \/ f = "amount" /\ formData.amount # <<>> /\ hasCents(formData.amount) }
       |-> CASE f = "duplicate" -> "Duplicate words detected"
             [] f = "description" -> "Beverage purchase detected"
             [] f = "amount" -> "Amount includes cents"]

\* the warnings of validateTransaction for the description and the amount:
\* warnings.description is assigned for duplicate words and then again for a
\* beverage; the warning of a date in the future, which depends on the day
\* of the call, is left out
WarningsOf(formData) ==
    [f \in { f \in {"description", "amount"} :
                \/ f = "description" /\ formData.description # <<>>
                                     /\ (\/ hasDuplicateWords(formData.description)
                                         \/ isBeverageTransaction(formData.description))
                \/ f = "amount" /\ formData.amount # <<>> /\ hasCents(formData.amount) }
       |-> IF f = "amount" THEN "Amount includes cents"
           ELSE IF isBeverageTransaction(formData.description)
           THEN "Beverage purchase detected"
           ELSE "Duplicate words detected"]

\* testPatterns.amount: the inputs of the authors' table with the results
\* they expect
testPatterns ==
    [amount |-> << [input |-> <<"0">>, expected |-> TRUE],
                   [input |-> <<"1","0">>, expected |-> TRUE],
                   [input |-> <<"1","0",".","5","0">>, expected |-> TRUE],
                   [input |-> <<"1","0",".","5">>, expected |-> FALSE],
                   [input |-> <<"1","0",".","5","0","0">>, expected |-> FALSE],
                   [input |-> <<"-","1","0">>, expected |-> FALSE] >>]

FieldNames == {"description", "amount", "date", "category"}

FieldValidation(formData, field) ==
    CASE field = "description" -> validateDescription(formData.description)
      [] field = "amount" -> validateAmount(formData.amount)
      [] field = "date" -> validateDate(formData.date)
      [] field = "category" -> validateCategory(formData.category)

\* errors: the failing fields, each with its message; cleaned: the values the
\* store keeps (a || b takes b when a is undefined, '' or 0)
validateTransaction(formData) ==
    LET descValidation == validateDescription(formData.description)
        amountValidation == validateAmount(formData.amount)
        catValidation == validateCategory(formData.category)
        failing == { f \in FieldNames : ~FieldValidation(formData, f).valid }
    IN [isValid |-> failing = {},
        errors |-> [f \in failing |-> FieldValidation(formData, f).message],
        warnings |-> WarningsOf(formData),
        cleaned |-> [description |-> IF descValidation.valid /\ descValidation.cleaned # <<>>
                                     THEN descValidation.cleaned
                                     ELSE formData.description,
                     amount |-> IF amountValidation.valid /\ amountValidation.value # 0
                                THEN amountValidation.value
                                ELSE parseFloat(formData.amount),
                     date |-> formData.date,
                     category |-> IF catValidation.valid /\ catValidation.cleaned # <<>>
                                  THEN catValidation.cleaned
                                  ELSE formData.category]]

(***************************************************************************)
(* The search matcher: new RegExp(pattern, 'g' | 'gi')                     *)
(*                                                                         *)
(* The patterns of the model are written with literal characters and the   *)
(* grouping parentheses; a group matches what its content matches, and a   *)
(* pattern whose parentheses do not pair does not compile.                 *)
(***************************************************************************)

\* the number of groups left open after the first i characters, or -1 once a
\* ")" closed a group that was never opened
RECURSIVE OpenGroups(_, _)
OpenGroups(pattern, i) ==
    IF i = 0 THEN 0
    ELSE LET before == OpenGroups(pattern, i - 1)
         IN IF before < 0 THEN before
            ELSE IF pattern[i] = "(" THEN before + 1
            ELSE IF pattern[i] = ")" THEN before - 1
            ELSE before

\* the SyntaxError message of new RegExp(pattern), "" when it compiles
RegExpSyntaxError(pattern) ==
    LET open == OpenGroups(pattern, Len(pattern))
    IN IF open > 0 THEN "Unterminated group"
       ELSE IF open < 0 THEN "Unmatched ')'"
       ELSE ""

\* the characters a compiled pattern matches, in order
RegExpLiteral(pattern) == SelectSeq(pattern, LAMBDA c : c \notin {"(", ")"})

\* currentSearch.regex: null, { error } or a RegExp with its lastIndex
NullRegex == [kind |-> "null", source |-> <<>>, flags |-> "", lastIndex |-> 0, error |-> ""]

ErrorRegex(message) ==
    [kind |-> "error", source |-> <<>>, flags |-> "", lastIndex |-> 0, error |-> message]

RegExp(pattern, flags) ==
    [kind |-> "regexp", source |-> pattern, flags |-> flags, lastIndex |-> 0, error |-> ""]

\* !regex || regex.error
NoMatcher(regex) == regex.kind \in {"null", "error"}

CharMatches(regex, p, c) ==
    IF regex.flags = "gi" THEN toUpperCase(p) = toUpperCase(c) ELSE p = c

\* the characters lit match text at the 0-based index at
MatchesAt(regex, lit, text, at) ==
    /\ at + Len(lit) <= Len(text)
    /\ \A k \in 1..Len(lit) : CharMatches(regex, lit[k], text[at + k])

\* regex.test(text) of a global RegExp: the search starts at lastIndex, a match
\* leaves lastIndex behind it, a failure resets lastIndex to 0
RegExpTest(regex, text) ==
    LET lit == RegExpLiteral(regex.source)
        Starts(from) == { at \in from..Len(text) : MatchesAt(regex, lit, text, at) }
    IN IF \E at \in regex.lastIndex..Len(text) : MatchesAt(regex, lit, text, at)
       THEN [matched |-> TRUE,
             lastIndex |-> Len(lit) + CHOOSE at \in Starts(regex.lastIndex) :
                                         \A other \in Starts(regex.lastIndex) : at <= other]
       ELSE [matched |-> FALSE, lastIndex |-> 0]

\* the decimal digits of a natural number
RECURSIVE NatToString(_)
NatToString(n) ==
    IF n < 10 THEN <<Digits[n + 1]>>
    ELSE NatToString(n \div 10) \o <<Digits[(n % 10) + 1]>>

\* the fraction digits of a count of thousandths, without trailing zeros
FractionToString(th) ==
    IF th = 0 THEN <<>>
    ELSE IF th % 100 = 0 THEN <<".", Digits[(th \div 100) + 1]>>
    ELSE IF th % 10 = 0 THEN <<".", Digits[(th \div 100) + 1], Digits[((th \div 10) % 10) + 1]>>
    ELSE <<".", Digits[(th \div 100) + 1], Digits[((th \div 10) % 10) + 1], Digits[(th % 10) + 1]>>

\* `${number}`
NumberToString(n) ==
    IF n = NaN THEN <<"N", "a", "N">>
    ELSE LET magnitude == IF n < 0 THEN 0 - n ELSE n
         IN (IF n < 0 THEN <<"-">> ELSE <<>>)
            \o NatToString(magnitude \div 1000) \o FractionToString(magnitude % 1000)

\* `${t.description} ${t.amount} ${t.category} ${t.date}`
Searchable(t) ==
    t.description \o <<" ">> \o NumberToString(t.amount) \o <<" ">>
    \o t.category \o <<" ">> \o t.date

\* transactions.filter(t => regex.test(searchable)) from index i on: the one
\* RegExp object carries its lastIndex from each test to the next
RECURSIVE FilterByRegex(_, _, _)
FilterByRegex(list, i, regex) ==
    IF i > Len(list) THEN [kept |-> <<>>, regex |-> regex]
    ELSE LET t == RegExpTest(regex, Searchable(list[i]))
             rest == FilterByRegex(list, i + 1, [regex EXCEPT !.lastIndex = t.lastIndex])
         IN [kept |-> (IF t.matched THEN <<list[i]>> ELSE <<>>) \o rest.kept,
             regex |-> rest.regex]

\* what applySearch leaves in filteredTransactions and in currentSearch.regex
applySearch(list, regex) ==
    IF NoMatcher(regex)
    THEN [filteredTransactions |-> list, regex |-> regex]
    ELSE LET r == FilterByRegex(list, 1, regex)
         IN [filteredTransactions |-> r.kept, regex |-> r.regex]

(***************************************************************************)
(* Sorting                                                                 *)
(***************************************************************************)

\* new Date(date) of a YYYY-MM-DD string, as a day count that orders dates as
\* the millisecond count does; NaN for a string that is no such date
DateValue(date) ==
    IF DatePattern(date)
       /\ NatOf(SubSeq(date, 9, 10))
            <= DaysInMonth(NatOf(SubSeq(date, 1, 4)), NatOf(SubSeq(date, 6, 7)))
    THEN NatOf(SubSeq(date, 1, 4)) * 372 + NatOf(SubSeq(date, 6, 7)) * 31
         + NatOf(SubSeq(date, 9, 10))
    ELSE NaN

\* a - b of two numbers
Minus(a, b) == IF a = NaN \/ b = NaN THEN NaN ELSE a - b

\* the collation order of the characters: white space, punctuation, digits,
\* letters; a letter's case does not count at this level
CollationOrder ==
    <<"\t", "\n", " ", "_", "-", ".", "(", ")">> \o Digits \o LowerLetters

CollationWeight ==
    [c \in Range(CollationOrder) |->
        CHOOSE i \in DOMAIN CollationOrder : CollationOrder[i] = c]

PrimaryWeight(c) == CollationWeight[toLowerCase(c)]

\* -1, 0, 1: the order of two strings by their primary weights
RECURSIVE PrimaryCompare(_, _, _)
PrimaryCompare(a, b, i) ==
    IF i > Len(a) /\ i > Len(b) THEN 0
    ELSE IF i > Len(a) THEN -1
    ELSE IF i > Len(b) THEN 1
    ELSE IF PrimaryWeight(a[i]) < PrimaryWeight(b[i]) THEN -1
    ELSE IF PrimaryWeight(a[i]) > PrimaryWeight(b[i]) THEN 1
    ELSE PrimaryCompare(a, b, i + 1)

\* the order of two strings that differ in case only: lower case first
RECURSIVE CaseCompare(_, _, _)
CaseCompare(a, b, i) ==
    IF i > Len(a) THEN 0
    ELSE IF a[i] = b[i] THEN CaseCompare(a, b, i + 1)
    ELSE IF IsLower(a[i]) THEN -1 ELSE 1

\* a.localeCompare(b)
localeCompare(a, b) ==
    LET primary == PrimaryCompare(a, b, 1)
    IN IF primary # 0 THEN primary ELSE CaseCompare(a, b, 1)

\* currentSort.split('-')
SortField(sortBy) ==
    CASE sortBy \in {"date-asc", "date-desc"} -> "date"
      [] sortBy \in {"amount-asc", "amount-desc"} -> "amount"
      [] sortBy \in {"description-asc", "description-desc"} -> "description"
      [] OTHER -> sortBy

SortDirection(sortBy) ==
    IF sortBy \in {"date-asc", "amount-asc", "description-asc"} THEN "asc" ELSE "desc"

\* the comparator of applySort; Array.prototype.sort takes NaN as 0
SortComparison(sortBy, a, b) ==
    LET field == SortField(sortBy)
        comparison == CASE field = "date" -> Minus(DateValue(a.date), DateValue(b.date))
                        [] field = "amount" -> Minus(a.amount, b.amount)
                        [] field = "description" -> localeCompare(a.description, b.description)
                        [] OTHER -> 0
        signed == IF comparison = NaN THEN 0
                  ELSE IF SortDirection(sortBy) = "asc" THEN comparison
                  ELSE 0 - comparison
    IN IF field \notin {"date", "amount", "description"} THEN 0 ELSE signed

\* x put into a sorted list behind every element that does not sort after it
InsertSorted(sortBy, sorted, x) ==
    LET after == { i \in DOMAIN sorted : SortComparison(sortBy, sorted[i], x) > 0 }
        at == IF after = {} THEN Len(sorted) + 1
              ELSE CHOOSE i \in after : \A j \in after : i <= j
    IN SubSeq(sorted, 1, at - 1) \o <<x>> \o SubSeq(sorted, at, Len(sorted))

\* filteredTransactions.sort(comparator): the sort is stable
RECURSIVE applySort(_, _)
applySort(list, sortBy) ==
    IF list = <<>> THEN <<>>
    ELSE InsertSorted(sortBy, applySort(SubSeq(list, 1, Len(list) - 1), sortBy),
                      list[Len(list)])

\* what applySearchAndSort leaves in filteredTransactions and currentSearch.regex
\* applySearchAndSort() with the call of applySort() left out
applySearchAndSort_unsorted(list, regex, sortBy) == applySearch(list, regex)

applySearchAndSort(list, regex, sortBy) ==
    LET searched == applySearch(list, regex)
    IN [filteredTransactions |-> applySort(searched.filteredTransactions, sortBy),
        regex |-> searched.regex]

(***************************************************************************)
(* storage.js                                                              *)
(***************************************************************************)
STORAGE_KEY == "finance_tracker:data"

SETTINGS_KEY == "finance_tracker:settings"

DEFAULT_SETTINGS ==
    [baseCurrency |-> "USD",
     conversionRates |-> [EUR |-> 850, GBP |-> 750],
     monthlyBudget |-> 500000,
     categories |-> <<"Food", "Books", "Transport", "Entertainment", "Fees", "Other">>]

\* localStorage.getItem(key) of a key that was never set: null
AbsentItem == [kind |-> "absent", parses |-> FALSE, value |-> <<>>]

\* a stored text JSON.parse throws on
CorruptItem == [kind |-> "text", parses |-> FALSE, value |-> <<>>]

\* JSON.stringify(value): the text JSON.parse reads back as value (the values
\* the store writes hold strings and finite numbers only)
JSONstringify(value) == [kind |-> "text", parses |-> TRUE, value |-> value]

\* the value null, which JSON.parse reads from the text 'null'; it is written
\* as a sequence so that it can be told from every list
JSONnull == <<[json |-> "null"]>>

\* [...value] throws a TypeError when value is not iterable, as null is
Iterable(value) == value # JSONnull

\* { ...b }: the keys of a are dropped
Spread_replaced(a, b) == b

\* { ...a, ...b }
Spread(a, b) ==
    [k \in DOMAIN a \cup DOMAIN b |-> IF k \in DOMAIN b THEN b[k] ELSE a[k]]

loadTransactions(storage) ==
    LET data == storage[STORAGE_KEY]
    IN IF data.kind = "absent" THEN <<>>
       ELSE IF data.parses THEN data.value
       ELSE <<>>

\* localStorage after saveTransactions; setItem throws when the store is not
\* writable (the quota is used up), which saveTransactions catches
saveTransactions(storage, list, writable) ==
    IF writable THEN [storage EXCEPT ![STORAGE_KEY] = JSONstringify(list)] ELSE storage

loadSettings(storage) ==
    LET data == storage[SETTINGS_KEY]
    IN IF data.kind = "absent" THEN DEFAULT_SETTINGS
       ELSE IF data.parses THEN Spread(DEFAULT_SETTINGS, data.value)
       ELSE DEFAULT_SETTINGS

saveSettings(storage, value, writable) ==
    IF writable THEN [storage EXCEPT ![SETTINGS_KEY] = JSONstringify(value)] ELSE storage

\* A file to import: its text is unreadable (the FileReader fails),
\* unparsable, the JSON null, or a JSON object; the object's key transactions
\* is absent, a value that is no array, or an array of items. An item is null
\* or an object; value holds its fields, a field that is missing being 0 or
\* the empty string, and typeofAmount the type of its amount.
File(text, transactions, items) == [text |-> text, transactions |-> transactions, items |-> items]

Item(isObject, typeofAmount, value) ==
    [isObject |-> isObject, typeofAmount |-> typeofAmount, value |-> value]

\* the promise settled: rejected with an error, or resolved with a result
Rejected(message) ==
    [rejected |-> TRUE, error |-> [message |-> message],
     transactions |-> <<>>, invalidCount |-> 0]

Resolved(validTransactions, invalidCount) ==
    [rejected |-> FALSE, error |-> [message |-> ""],
     transactions |-> validTransactions, invalidCount |-> invalidCount]

\* importFromJSON(file, validateCallback), when the FileReader has finished;
\* validateCallback is the callback as a function of the items, and it throws
\* a TypeError when it reads a field of null
importFromJSON(file, validateCallback) ==
    IF file.text = "unreadable" THEN Rejected("Error reading file")
    ELSE IF file.text = "unparsable" THEN Rejected("Unexpected token")
    ELSE IF file.text = "null" THEN Rejected("Cannot read properties of null")
    ELSE IF file.transactions # "array"
    THEN Rejected("Invalid data format: missing transactions array")
    ELSE IF \E i \in DOMAIN file.items : ~file.items[i].isObject
    THEN Rejected("Cannot read properties of null")
    ELSE LET validItems == SelectSeq(file.items, LAMBDA item : validateCallback[item])
         IN Resolved([i \in DOMAIN validItems |-> validItems[i].value],
                     Len(file.items) - Len(validItems))

\* the ten records of loadSeedData, before their timestamps are set
SeedData == <<
    [id |-> 1, amount |-> 12500,
     description |-> <<"L","u","n","c","h"," ","a","t"," ","c","a","f","e","t","e","r","i","a">>,
     category |-> <<"F","o","o","d">>,
     date |-> <<"2","0","2","5","-","0","9","-","2","5">>],
    [id |-> 2, amount |-> 89990,
     description |-> <<"C","h","e","m","i","s","t","r","y"," ","t","e","x","t","b","o","o","k">>,
     category |-> <<"B","o","o","k","s">>,
     date |-> <<"2","0","2","5","-","0","9","-","2","3">>],
    [id |-> 3, amount |-> 45000,
     description |-> <<"B","u","s"," ","p","a","s","s">>,
     category |-> <<"T","r","a","n","s","p","o","r","t">>,
     date |-> <<"2","0","2","5","-","0","9","-","2","0">>],
    [id |-> 4, amount |-> 8750,
     description |-> <<"C","o","f","f","e","e"," ","c","o","f","f","e","e"," ","w","i","t","h"," ","f","r","i","e","n","d","s">>,
     category |-> <<"E","n","t","e","r","t","a","i","n","m","e","n","t">>,
     date |-> <<"2","0","2","5","-","0","9","-","2","8">>],
    [id |-> 5, amount |-> 500000,
     description |-> <<"T","u","i","t","i","o","n"," ","f","e","e"," ","p","a","y","m","e","n","t">>,
     category |-> <<"F","e","e","s">>,
     date |-> <<"2","0","2","5","-","0","9","-","0","1">>],
    [id |-> 6, amount |-> 30000,
     description |-> <<"G","y","m"," ","m","e","m","b","e","r","s","h","i","p">>,
     category |-> <<"F","e","e","s">>,
     date |-> <<"2","0","2","5","-","0","9","-","1","5">>],
    [id |-> 7, amount |-> 15500,
     description |-> <<"L","a","t","e"," ","n","i","g","h","t"," ","p","i","z","z","a">>,
     category |-> <<"F","o","o","d">>,
     date |-> <<"2","0","2","5","-","0","9","-","2","7">>],
    [id |-> 8, amount |-> 9990,
     description |-> <<"S","p","o","t","i","f","y"," ","p","r","e","m","i","u","m">>,
     category |-> <<"E","n","t","e","r","t","a","i","n","m","e","n","t">>,
     date |-> <<"2","0","2","5","-","0","9","-","1","8">>],
    [id |-> 9, amount |-> 12750,
     description |-> <<"N","o","t","e","b","o","o","k","s"," ","a","n","d"," ","p","e","n","s">>,
     category |-> <<"B","o","o","k","s">>,
     date |-> <<"2","0","2","5","-","0","9","-","2","2">>],
    [id |-> 10, amount |-> 18250,
     description |-> <<"U","b","e","r"," ","t","o"," ","c","a","m","p","u","s">>,
     category |-> <<"T","r","a","n","s","p","o","r","t">>,
     date |-> <<"2","0","2","5","-","0","9","-","2","6">>] >>

(***************************************************************************)
(* Bounds and inputs of the model                                          *)
(***************************************************************************)

\* the longest canonical list
MaxTransactions == 3

\* how many handlers read the clock (add, update, load seed data) in one run
MaxClockReads == 2

\* how many of the ten seed records loadSeedData loads
NumSeed == 1

\* how many files are being read at a time
MaxReading == 1

\* the longest text typed into the amount field, the chosen amounts apart
MaxAmountLength == 3

\* the longest list of listeners
MaxListeners == 3

\* the longest text typed into the description or the category field
MaxTextLength == 3

\* the most words of a description given to validateTransaction
MaxWords == 2

Chars(a, b, c, d) == [description |-> a, amount |-> b, category |-> c, date |-> d]

\* what the form holds when it is submitted
ValidForms ==
    { Chars(<<"T","e","a">>, <<"3",".","5","0">>, <<"f","o","o","d">>,
            <<"2","0","2","5","-","0","1","-","1","0">>),
      Chars(<<"a","\t","b">>, <<"4","5">>, <<"F","e","e","s">>,
            <<"2","0","2","4","-","0","2","-","2","9">>) }

InvalidForms ==
    { Chars(<<" ","T","e","a">>, <<"3",".","5","0">>, <<"f","o","o","d">>,
            <<"2","0","2","5","-","0","1","-","1","0">>),
      Chars(<<"T","e","a">>, <<"1","0",".","5","0","0">>, <<"F">>,
            <<"2","0","2","5","-","0","2","-","3","0">>) }

FormInputs == ValidForms \cup InvalidForms

\* validateTransaction of each form input, computed once
Validated == [formData \in FormInputs |-> validateTransaction(formData)]

\* the list an earlier run left in localStorage: two records, the older first
EarlierSession ==
    << [id |-> 1001, amount |-> 45000, description |-> <<"B","u","s">>,
        category |-> <<"F","e","e","s">>,
        date |-> <<"2","0","2","4","-","1","2","-","3","1">>,
        createdAt |-> 1, updatedAt |-> 1],
       [id |-> 1000, amount |-> 3500, description |-> <<"T","e","a">>,
        category |-> <<"F","o","o","d">>,
        date |-> <<"2","0","2","5","-","0","1","-","1","0">>,
        createdAt |-> 0, updatedAt |-> 0] >>

\* localStorage with the two keys of the application
Stored(data, storedSettings) ==
    [k \in {STORAGE_KEY, SETTINGS_KEY} |-> IF k = STORAGE_KEY THEN data ELSE storedSettings]

\* what localStorage holds when the page is opened: the list of the earlier
\* run, and no settings
InitialStorage == { Stored(JSONstringify(EarlierSession), AbsentItem) }

\* what localStorage may hold when the page is opened: under the key of the
\* list nothing, a text that does not parse, the text 'null', the empty list
\* or the list of the earlier run; under the key of the settings nothing, a
\* text that does not parse, or an object with the budget alone
StartupStorage ==
    { Stored(data, storedSettings) :
        data \in { AbsentItem, CorruptItem, JSONstringify(JSONnull), JSONstringify(<<>>),
                   JSONstringify(EarlierSession) },
        storedSettings \in { AbsentItem, CorruptItem,
                             JSONstringify([monthlyBudget |-> 60000]) } }

\* the characters typed into the amount field
AmountChars == {"0", "1", "5", ".", "-"}

\* what the amount field holds when an input event fires: every text of the
\* characters up to the length, the inputs of testPatterns.amount, and amounts
\* at and around 1,000,000
AmountInputs ==
    UNION { [1..n -> AmountChars] : n \in 0..MaxAmountLength }
    \cup { testPatterns.amount[i].input : i \in DOMAIN testPatterns.amount }
    \cup { <<"1","0","0","0","0","0","0">>,
           <<"1","0","0","0","0","0","0",".","0","0">>,
           <<"1","0","0","0","0","0","0",".","0","1">>,
           <<"1","0","0","0","0","0","1">>,
           <<"9","9","9","9","9","9",".","9","9">>,
           <<" ","1","0">>, <<"+","1","0">>, <<"1","0","\n">> }

\* what the description field holds when an input event fires: every text of
\* a letter, the space and the tab up to the length, and the descriptions of
\* the forms
DescriptionInputs ==
    UNION { [1..n -> {"a", " ", "\t"}] : n \in 0..MaxTextLength }
    \cup { formData.description : formData \in FormInputs }

\* what the category field holds when an input event fires: every text of a
\* small letter, a capital, the space and the hyphen up to the length, and
\* the categories of the forms
CategoryInputs ==
    UNION { [1..n -> {"a", "B", " ", "-"}] : n \in 0..MaxTextLength }
    \cup { formData.category : formData \in FormInputs }

\* what a field of the form holds when an input event fires
FieldInputs(fieldName) ==
    IF fieldName = "amount" THEN AmountInputs
    ELSE IF fieldName = "description" THEN DescriptionInputs
    ELSE IF fieldName = "category" THEN CategoryInputs
    ELSE { formData[fieldName] : formData \in FormInputs }

\* what is typed into the search box, with the case-sensitive box: no
\* pattern, one that does not compile, one that does
SearchInputs ==
    { [pattern |-> <<>>, caseSensitive |-> FALSE],
      [pattern |-> <<"(">>, caseSensitive |-> TRUE],
      [pattern |-> <<"e","e">>, caseSensitive |-> FALSE] }

\* the values chosen in the sort select
SortKeys == { "date-desc", "amount-asc" }

(***************************************************************************)
(* state.js: the store                                                     *)
(***************************************************************************)
VARIABLES
    transactions,           \* this.transactions: the canonical list
    settings,               \* this.settings
    filteredTransactions,   \* this.filteredTransactions: the derived view
    currentSearch,          \* this.currentSearch: pattern, regex, caseSensitive
    currentSort,            \* this.currentSort
    editingId,              \* this.editingId, 0 for null
    listeners,              \* this.listeners
    localStorage,           \* the browser's store: key -> item
    now,                    \* the clock
    started,                \* state.init() has run to its end
    reading,                \* the reads of a FileReader that are pending, oldest first
    lastOp                  \* the last call of the store: arguments and outcome

vars == <<transactions, settings, filteredTransactions, currentSearch, currentSort,
          editingId, listeners, localStorage, now, started, reading, lastOp>>

NoForm == Chars(<<>>, <<>>, <<>>, <<>>)

\* the record of a call: what it was given (given: a list, a settings object
\* or a file), what it threw or returned, the listeners it invoked, the values
\* it handed to saveTransactions or saveSettings, what it wrote with
\* console.error, the messages showMessage showed when an import failed, for
\* importTransactions the reads that were pending when it was called, and for
\* a mutation what each listener found when it was called
Call(op, id, formData, confirmed) ==
    [op |-> op, id |-> id, formData |-> formData, confirmed |-> confirmed,
     given |-> <<>>, threw |-> FALSE, error |-> [message |-> ""], returned |-> <<>>,
     notified |-> <<>>, saved |-> <<>>, logged |-> <<>>, shown |-> <<>>,
     pending |-> <<>>, observed |-> <<>>]

\* what saveTransactions and saveSettings log: the error of a setItem that
\* threw
ConsoleErrors(writable, message) == IF writable THEN <<>> ELSE <<message>>

\* throw new Error(message)
Throws(call, message) == [call EXCEPT !.threw = TRUE, !.error = [message |-> message]]

\* 'txn_' + Date.now() + '_' + Math.random().toString(36).substr(2, 9): the
\* clock reading stands for the pair; no two calls read the same clock
GeneratedIdBase == 1000

\* generateId() without the clock reading: every call gives the same id
generateId_reused == GeneratedIdBase

generateId == GeneratedIdBase + now

\* the current time as a timestamp
getTimestamp == now

\* the clock may still be read in this run
ClockLeft == now - Len(EarlierSession) < MaxClockReads

\* the ids a caller names: those of the list, and one that no record has
IdChoices == { transactions[i].id : i \in DOMAIN transactions } \cup { generateId }

\* ui.js render(), the listener UIManager subscribes: each row's cells go
\* through highlightMatches, and text.replace(regex, ...) of a global RegExp
\* leaves its lastIndex at 0
render(view, regex) ==
    IF regex.kind = "regexp" /\ view # <<>> THEN [regex EXCEPT !.lastIndex = 0] ELSE regex

\* notify(): every listener is called, in order, with the store
notify(ls, view, regex) ==
    [notified |-> ls,
     regex |-> IF "ui" \in Range(ls) THEN render(view, regex) ELSE regex]

\* what the listeners that notify() calls find, one after the other: the
\* canonical list, the view and the stored list as they are at that time
Observed(ls, list, view, storage) ==
    [i \in DOMAIN ls |-> [listener |-> ls[i], transactions |-> list,
                          filteredTransactions |-> view, stored |-> storage[STORAGE_KEY]]]

\* transactions.findIndex(t => t.id === id), 0 for -1
findIndex(list, id) ==
    IF \E i \in DOMAIN list : list[i].id = id
    THEN CHOOSE i \in DOMAIN list : list[i].id = id /\ \A j \in 1..(i - 1) : list[j].id # id
    ELSE 0

\* getTransaction(id): the found record in a list of one, <<>> for undefined
getTransaction(id) ==
    LET index == findIndex(transactions, id)
    IN IF index = 0 THEN <<>> ELSE <<transactions[index]>>

\* a || b of two numbers: NaN and 0 are falsy
OrDefault(a, b) == IF a = NaN \/ a = 0 THEN b ELSE a

\* transactions.reduce((sum, t) => sum + t.amount, 0), in thousandths
RECURSIVE SumOfAmounts(_)
SumOfAmounts(list) ==
    IF list = <<>> THEN 0 ELSE list[1].amount + SumOfAmounts(Tail(list))

\* a quotient of two numbers kept as the pair, the divisor not 0
Quotient(num, den) == [num |-> num, den |-> den]

\* a < b of two quotients
QuotientLess(a, b) ==
    IF (a.den > 0) = (b.den > 0) THEN a.num * b.den < b.num * a.den
    ELSE a.num * b.den > b.num * a.den

\* Math.min(a, b) of two quotients
MathMin(a, b) == IF QuotientLess(b, a) THEN b ELSE a

\* Math.max(a, b) of two numbers
MathMax(a, b) == IF a > b THEN a ELSE b

\* the forEach that fills categoryCount: the categories in the order they
\* first appear in the list
RECURSIVE FirstSeen(_)
FirstSeen(list) ==
    IF list = <<>> THEN <<>>
    ELSE LET front == FirstSeen(SubSeq(list, 1, Len(list) - 1))
             last == list[Len(list)].category
         IN IF last \in Range(front) THEN front ELSE Append(front, last)

\* a < b of two texts of digits of one length
RECURSIVE DigitsLess(_, _)
DigitsLess(a, b) ==
    /\ a # <<>>
    /\ \/ DigitVal[a[1]] < DigitVal[b[1]]
       \/ a[1] = b[1] /\ DigitsLess(Tail(a), Tail(b))

\* a property key that is an array index: the decimal text, without leading
\* zeros, of an integer from 0 to 2^32 - 2
IsArrayIndex(key) ==
    /\ key # <<>>
    /\ \A i \in DOMAIN key : IsDigit(key[i])
    /\ Len(key) = 1 \/ key[1] # "0"
    /\ \/ Len(key) < 10
       \/ Len(key) = 10 /\ DigitsLess(key, <<"4","2","9","4","9","6","7","2","9","5">>)

\* a < b of two array indices
ArrayIndexLess(a, b) == Len(a) < Len(b) \/ (Len(a) = Len(b) /\ DigitsLess(a, b))

\* array indices in ascending order
RECURSIVE Ascending(_)
Ascending(keys) ==
    IF keys = {} THEN <<>>
    ELSE LET least == CHOOSE k \in keys : \A o \in keys \ {k} : ArrayIndexLess(k, o)
         IN <<least>> \o Ascending(keys \ {least})

\* Object.entries(categoryCount) whose keys all come in the order of their
\* creation
CategoriesOf_inOrderOfCreation(list) == FirstSeen(list)

\* Object.entries(categoryCount): the own keys of an object are its array
\* indices in ascending order, then its other keys in the order of creation
CategoriesOf(list) ==
    LET created == FirstSeen(list)
    IN Ascending({ k \in Range(created) : IsArrayIndex(k) })
       \o SelectSeq(created, LAMBDA k : ~IsArrayIndex(k))

\* the for loop over the entries: a later category replaces the top one
\* when its count is greater
RECURSIVE TopCategory(_, _)
TopCategory(list, categories) ==
    IF categories = <<>> THEN [topCategory |-> <<"-">>, maxCount |-> 0]
    ELSE LET before == TopCategory(list, SubSeq(categories, 1, Len(categories) - 1))
             category == categories[Len(categories)]
             count == Cardinality({ i \in DOMAIN list : list[i].category = category })
         IN IF count > before.maxCount
            THEN [topCategory |-> category, maxCount |-> count]
            ELSE before

\* getStats() whose isOverBudget is true already when the budget is used up
getStats_overAtLimit(list, s) ==
    LET totalAmount == SumOfAmounts(list)
        budgetUsed == totalAmount
        budgetTotal == OrDefault(IF "monthlyBudget" \in DOMAIN s THEN s.monthlyBudget
                                 ELSE NaN, 500000)
    IN [total |-> Len(list),
        totalAmount |-> totalAmount,
        topCategory |-> TopCategory(list, CategoriesOf(list)).topCategory,
        budget |-> [used |-> budgetUsed,
                    total |-> budgetTotal,
                    percentage |-> MathMin(Quotient(budgetUsed * 100, budgetTotal),
                                           Quotient(100, 1)),
                    isOverBudget |-> budgetUsed >= budgetTotal,
                    remaining |-> MathMax(budgetTotal - budgetUsed, 0),
                    overspent |-> MathMax(budgetUsed - budgetTotal, 0)]]

\* getStats() without last7Days, which depends on the day the page is used;
\* percentage is the quotient used / total * 100, capped at 100
getStats(list, s) ==
    LET totalAmount == SumOfAmounts(list)
        budgetUsed == totalAmount
        budgetTotal == OrDefault(IF "monthlyBudget" \in DOMAIN s THEN s.monthlyBudget
                                 ELSE NaN, 500000)
    IN [total |-> Len(list),
        totalAmount |-> totalAmount,
        topCategory |-> TopCategory(list, CategoriesOf(list)).topCategory,
        budget |-> [used |-> budgetUsed,
                    total |-> budgetTotal,
                    percentage |-> MathMin(Quotient(budgetUsed * 100, budgetTotal),
                                           Quotient(100, 1)),
                    isOverBudget |-> budgetUsed > budgetTotal,
                    remaining |-> MathMax(budgetTotal - budgetUsed, 0),
                    overspent |-> MathMax(budgetUsed - budgetTotal, 0)]]

\* the store and the page as their constructors leave them
Constructed ==
    /\ transactions = <<>>
    /\ settings = <<>>
    /\ filteredTransactions = <<>>
    /\ currentSearch = [pattern |-> <<>>, regex |-> NullRegex, caseSensitive |-> FALSE]
    /\ currentSort = "date-desc"
    /\ editingId = 0
    /\ listeners = <<"ui">>
    /\ now = Len(EarlierSession)
    /\ started = FALSE
    /\ reading = <<>>
    /\ lastOp = Call("constructor", 0, NoForm, FALSE)

Init ==
    /\ Constructed
    /\ localStorage \in InitialStorage

\* the page is opened over whatever localStorage holds
InitStartup ==
    /\ Constructed
    /\ localStorage \in StartupStorage

\* init(), which App.init calls once: the view is a copy of the loaded list,
\* neither filtered nor sorted. When what was loaded cannot be spread, init
\* throws with this.transactions and this.settings assigned; the handlers of
\* the page, which would find no list, are not followed from there.
init ==
    /\ ~started
    /\ lastOp.op = "constructor"
    /\ transactions' = loadTransactions(localStorage)
    /\ settings' = loadSettings(localStorage)
    /\ IF Iterable(transactions')
       THEN /\ started' = TRUE
            /\ filteredTransactions' = transactions'
            /\ LET n == notify(listeners, filteredTransactions', currentSearch.regex)
               IN /\ currentSearch' = [currentSearch EXCEPT !.regex = n.regex]
                  /\ lastOp' = [Call("init", 0, NoForm, FALSE)
                                  EXCEPT !.notified = n.notified]
       ELSE /\ lastOp' = Throws(Call("init", 0, NoForm, FALSE),
                                "object null is not iterable")
            /\ UNCHANGED <<started, filteredTransactions, currentSearch>>
    /\ UNCHANGED <<currentSort, editingId, listeners, localStorage, now, reading>>

\* the tail of a mutation that hands saveTransactions the list as it was
\* before the mutation
Recomputed_savedBefore(list, writable, call) ==
    \E r \in {applySearchAndSort(list, currentSearch.regex, currentSort)} :
    \E n \in {notify(listeners, r.filteredTransactions, r.regex)} :
       /\ transactions' = list
       /\ filteredTransactions' = r.filteredTransactions
       /\ localStorage' = saveTransactions(localStorage, transactions, writable)
       /\ currentSearch' = [currentSearch EXCEPT !.regex = n.regex]
       /\ lastOp' = [call EXCEPT !.notified = n.notified, !.saved = <<transactions>>,
                                 !.logged = ConsoleErrors(writable,
                                                          "Error saving transactions:"),
                                 !.observed = Observed(n.notified, list,
                                                       r.filteredTransactions,
                                                       localStorage')]

\* the tail of a mutation whose saveTransactions logs the error of setItem and
\* throws it again: the mutation ends there, before notify()
Recomputed_rethrown(list, writable, call) ==
    \E r \in {applySearchAndSort(list, currentSearch.regex, currentSort)} :
    \E n \in {IF writable THEN notify(listeners, r.filteredTransactions, r.regex)
              ELSE [notified |-> <<>>, regex |-> r.regex]} :
       /\ transactions' = list
       /\ filteredTransactions' = r.filteredTransactions
       /\ localStorage' = saveTransactions(localStorage, list, writable)
       /\ currentSearch' = [currentSearch EXCEPT !.regex = n.regex]
       /\ lastOp' = [call EXCEPT !.notified = n.notified, !.saved = <<list>>,
                                 !.threw = ~writable,
                                 !.returned = IF writable THEN @ ELSE <<>>,
                                 !.logged = ConsoleErrors(writable,
                                                          "Error saving transactions:"),
                                 !.observed = Observed(n.notified, list,
                                                       r.filteredTransactions,
                                                       localStorage')]

\* the tail of a mutation that calls notify() before saveTransactions(): the
\* listeners find the stored list of before the mutation
Recomputed_notifiedFirst(list, writable, call) ==
    \E r \in {applySearchAndSort(list, currentSearch.regex, currentSort)} :
    \E n \in {notify(listeners, r.filteredTransactions, r.regex)} :
       /\ transactions' = list
       /\ filteredTransactions' = r.filteredTransactions
       /\ localStorage' = saveTransactions(localStorage, list, writable)
       /\ currentSearch' = [currentSearch EXCEPT !.regex = n.regex]
       /\ lastOp' = [call EXCEPT !.notified = n.notified, !.saved = <<list>>,
                                 !.logged = ConsoleErrors(writable,
                                                          "Error saving transactions:"),
                                 !.observed = Observed(n.notified, list,
                                                       r.filteredTransactions,
                                                       localStorage)]

\* the tail of the mutations without applySearchAndSort(): the view stays as
\* it was computed from the list before the mutation
Recomputed_staleView(list, writable, call) ==
    \E n \in {notify(listeners, filteredTransactions, currentSearch.regex)} :
       /\ transactions' = list
       /\ filteredTransactions' = filteredTransactions
       /\ localStorage' = saveTransactions(localStorage, list, writable)
       /\ currentSearch' = [currentSearch EXCEPT !.regex = n.regex]
       /\ lastOp' = [call EXCEPT !.notified = n.notified, !.saved = <<list>>,
                                 !.logged = ConsoleErrors(writable,
                                                          "Error saving transactions:"),
                                 !.observed = Observed(n.notified, list,
                                                       filteredTransactions,
                                                       localStorage')]

\* the tail shared by the mutations: applySearchAndSort(), saveTransactions(),
\* notify()
Recomputed(list, writable, call) ==
    \E r \in {applySearchAndSort(list, currentSearch.regex, currentSort)} :
    \E n \in {notify(listeners, r.filteredTransactions, r.regex)} :
       /\ transactions' = list
       /\ filteredTransactions' = r.filteredTransactions
       /\ localStorage' = saveTransactions(localStorage, list, writable)
       /\ currentSearch' = [currentSearch EXCEPT !.regex = n.regex]
       /\ lastOp' = [call EXCEPT !.notified = n.notified, !.saved = <<list>>,
                                 !.logged = ConsoleErrors(writable,
                                                          "Error saving transactions:"),
                                 !.observed = Observed(n.notified, list,
                                                       r.filteredTransactions,
                                                       localStorage')]

\* addTransaction() without the isValid check
addTransaction_unvalidated(formData, writable) ==
    \E validation \in { Validated[formData] } :
    LET transaction == [id |-> generateId,
                        description |-> validation.cleaned.description,
                        amount |-> validation.cleaned.amount,
                        category |-> validation.cleaned.category,
                        date |-> validation.cleaned.date,
                        createdAt |-> getTimestamp,
                        updatedAt |-> getTimestamp]
    IN /\ started
       /\ ClockLeft
       /\ Len(transactions) < MaxTransactions
       /\ Recomputed(<<transaction>> \o transactions, writable,
                     [Call("addTransaction", 0, formData, FALSE)
                         EXCEPT !.returned = <<transaction>>])
       /\ now' = now + 1
       /\ UNCHANGED <<settings, currentSort, editingId, listeners, started, reading>>

addTransaction(formData, writable) ==
    \E validation \in { Validated[formData] } :
    LET call == Call("addTransaction", 0, formData, FALSE)
        transaction == [id |-> generateId,
                        description |-> validation.cleaned.description,
                        amount |-> validation.cleaned.amount,
                        category |-> validation.cleaned.category,
                        date |-> validation.cleaned.date,
                        createdAt |-> getTimestamp,
                        updatedAt |-> getTimestamp]
    IN /\ started
       /\ \/ /\ ~validation.isValid
             /\ lastOp' = Throws(call, "Invalid transaction data")
             /\ UNCHANGED <<transactions, settings, filteredTransactions, currentSearch,
                            currentSort, editingId, listeners, localStorage, now, started, reading>>
          \/ /\ validation.isValid
             /\ ClockLeft
             /\ Len(transactions) < MaxTransactions
             /\ Recomputed(<<transaction>> \o transactions, writable,
                           [call EXCEPT !.returned = <<transaction>>])
             /\ now' = now + 1
             /\ UNCHANGED <<settings, currentSort, editingId, listeners, started, reading>>

\* updateTransaction() that takes the old record out and puts the new one first
updateTransaction_moved(id, formData, writable) ==
    \E validation \in { Validated[formData] } :
    LET call == Call("updateTransaction", id, formData, FALSE)
        index == findIndex(transactions, id)
        updatedTransaction == [transactions[index] EXCEPT
                                  !.description = validation.cleaned.description,
                                  !.amount = validation.cleaned.amount,
                                  !.category = validation.cleaned.category,
                                  !.date = validation.cleaned.date,
                                  !.updatedAt = getTimestamp]
    IN /\ started
       /\ \/ /\ ~validation.isValid
             /\ lastOp' = Throws(call, "Invalid transaction data")
             /\ UNCHANGED <<transactions, settings, filteredTransactions, currentSearch,
                            currentSort, editingId, listeners, localStorage, now, started, reading>>
          \/ /\ validation.isValid
             /\ index = 0
             /\ lastOp' = Throws(call, "Transaction not found")
             /\ UNCHANGED <<transactions, settings, filteredTransactions, currentSearch,
                            currentSort, editingId, listeners, localStorage, now, started, reading>>
          \/ /\ validation.isValid
             /\ index # 0
             /\ ClockLeft
             /\ Recomputed(<<updatedTransaction>> \o SelectSeq(transactions, LAMBDA t : t.id # id), writable,
                           [call EXCEPT !.returned = <<updatedTransaction>>])
             /\ now' = now + 1
             /\ UNCHANGED <<settings, currentSort, editingId, listeners, started, reading>>

\* updateTransaction() that creates the record when no record has the id
updateTransaction_upsert(id, formData, writable) ==
    \E validation \in { Validated[formData] } :
    LET call == Call("updateTransaction", id, formData, FALSE)
        index == findIndex(transactions, id)
        updatedTransaction == [transactions[index] EXCEPT
                                  !.description = validation.cleaned.description,
                                  !.amount = validation.cleaned.amount,
                                  !.category = validation.cleaned.category,
                                  !.date = validation.cleaned.date,
                                  !.updatedAt = getTimestamp]
    IN /\ started
       /\ \/ /\ ~validation.isValid
             /\ lastOp' = Throws(call, "Invalid transaction data")
             /\ UNCHANGED <<transactions, settings, filteredTransactions, currentSearch,
                            currentSort, editingId, listeners, localStorage, now, started, reading>>
          \/ /\ validation.isValid
             /\ index = 0
             /\ ClockLeft
             /\ Len(transactions) < MaxTransactions
             /\ \E created \in { [id |-> id,
                                   description |-> validation.cleaned.description,
                                   amount |-> validation.cleaned.amount,
                                   category |-> validation.cleaned.category,
                                   date |-> validation.cleaned.date,
                                   createdAt |-> getTimestamp,
                                   updatedAt |-> getTimestamp] } :
                   Recomputed(<<created>> \o transactions, writable,
                              [call EXCEPT !.returned = <<created>>])
             /\ now' = now + 1
             /\ UNCHANGED <<settings, currentSort, editingId, listeners, started, reading>>
          \/ /\ validation.isValid
             /\ index # 0
             /\ ClockLeft
             /\ Recomputed([transactions EXCEPT ![index] = updatedTransaction], writable,
                           [call EXCEPT !.returned = <<updatedTransaction>>])
             /\ now' = now + 1
             /\ UNCHANGED <<settings, currentSort, editingId, listeners, started, reading>>

updateTransaction(id, formData, writable) ==
    \E validation \in { Validated[formData] } :
    LET call == Call("updateTransaction", id, formData, FALSE)
        index == findIndex(transactions, id)
        updatedTransaction == [transactions[index] EXCEPT
                                  !.description = validation.cleaned.description,
                                  !.amount = validation.cleaned.amount,
                                  !.category = validation.cleaned.category,
                                  !.date = validation.cleaned.date,
                                  !.updatedAt = getTimestamp]
    IN /\ started
       /\ \/ /\ ~validation.isValid
             /\ lastOp' = Throws(call, "Invalid transaction data")
             /\ UNCHANGED <<transactions, settings, filteredTransactions, currentSearch,
                            currentSort, editingId, listeners, localStorage, now, started, reading>>
          \/ /\ validation.isValid
             /\ index = 0
             /\ lastOp' = Throws(call, "Transaction not found")
             /\ UNCHANGED <<transactions, settings, filteredTransactions, currentSearch,
                            currentSort, editingId, listeners, localStorage, now, started, reading>>
          \/ /\ validation.isValid
             /\ index # 0
             /\ ClockLeft
             /\ Recomputed([transactions EXCEPT ![index] = updatedTransaction], writable,
                           [call EXCEPT !.returned = <<updatedTransaction>>])
             /\ now' = now + 1
             /\ UNCHANGED <<settings, currentSort, editingId, listeners, started, reading>>

\* deleteTransaction() that goes on whatever confirm() answered
deleteTransaction_unprompted(id, confirmed, writable) ==
    /\ started
    /\ Recomputed(SelectSeq(transactions, LAMBDA t : t.id # id), writable,
                  [Call("deleteTransaction", id, NoForm, confirmed)
                      EXCEPT !.returned = <<TRUE>>])
    /\ UNCHANGED <<settings, currentSort, editingId, listeners, now, started, reading>>

\* deleteTransaction() that looks the id up first and, when no record has
\* it, returns false without a write or a notification
deleteTransaction_lookedUp(id, confirmed, writable) ==
    LET call == Call("deleteTransaction", id, NoForm, confirmed)
    IN /\ started
       /\ \/ /\ ~confirmed \/ findIndex(transactions, id) = 0
             /\ lastOp' = [call EXCEPT !.returned = <<FALSE>>]
             /\ UNCHANGED <<transactions, settings, filteredTransactions, currentSearch,
                            currentSort, editingId, listeners, localStorage, now, started, reading>>
          \/ /\ confirmed
             /\ findIndex(transactions, id) # 0
             /\ Recomputed(SelectSeq(transactions, LAMBDA t : t.id # id), writable,
                           [call EXCEPT !.returned = <<TRUE>>])
             /\ UNCHANGED <<settings, currentSort, editingId, listeners, now, started, reading>>

\* confirmed: the user's answer to confirm()
deleteTransaction(id, confirmed, writable) ==
    LET call == Call("deleteTransaction", id, NoForm, confirmed)
    IN /\ started
       /\ \/ /\ ~confirmed
             /\ lastOp' = [call EXCEPT !.returned = <<FALSE>>]
             /\ UNCHANGED <<transactions, settings, filteredTransactions, currentSearch,
                            currentSort, editingId, listeners, localStorage, now, started, reading>>
          \/ /\ confirmed
             /\ Recomputed(SelectSeq(transactions, LAMBDA t : t.id # id), writable,
                           [call EXCEPT !.returned = <<TRUE>>])
             /\ UNCHANGED <<settings, currentSort, editingId, listeners, now, started, reading>>

\* the value setSearch stores when the empty pattern is given to new RegExp
\* as no pattern and so counts as an error
CompileSearch_emptyIsError(pattern, caseSensitive) ==
    IF pattern = <<>> THEN ErrorRegex("Invalid regular expression")
    ELSE IF RegExpSyntaxError(pattern) # "" THEN ErrorRegex(RegExpSyntaxError(pattern))
    ELSE RegExp(pattern, IF caseSensitive THEN "g" ELSE "gi")

\* the RegExp, or the error marker, setSearch stores
CompileSearch(pattern, caseSensitive) ==
    IF pattern = <<>> THEN NullRegex
    ELSE IF RegExpSyntaxError(pattern) # "" THEN ErrorRegex(RegExpSyntaxError(pattern))
    ELSE RegExp(pattern, IF caseSensitive THEN "g" ELSE "gi")

\* setSearch recomputes the view and calls no listener
setSearch(pattern, caseSensitive) ==
    \E r \in {applySearchAndSort(transactions, CompileSearch(pattern, caseSensitive),
                                 currentSort)} :
       /\ started
       /\ currentSearch' = [pattern |-> pattern, regex |-> r.regex,
                            caseSensitive |-> caseSensitive]
       /\ filteredTransactions' = r.filteredTransactions
       /\ lastOp' = Call("setSearch", 0, NoForm, FALSE)
       /\ UNCHANGED <<transactions, settings, currentSort, editingId, listeners,
                      localStorage, now, started, reading>>

\* handleSearch() that hands every pattern to the store without compiling it
\* first
handleSearch_unchecked(pattern, caseSensitive) ==
    \E r \in {applySearchAndSort(transactions, CompileSearch(pattern, caseSensitive),
                                 currentSort)} :
       /\ started
       /\ currentSearch' = [pattern |-> pattern, regex |-> r.regex,
                            caseSensitive |-> caseSensitive]
       /\ filteredTransactions' = r.filteredTransactions
       /\ lastOp' = [Call("handleSearch", 0, NoForm, FALSE) EXCEPT !.given = <<pattern>>]
       /\ UNCHANGED <<transactions, settings, currentSort, editingId, listeners,
                      localStorage, now, started, reading>>

\* ui.js handleSearch, run when Enter is pressed in the search box: the
\* pattern is compiled with compileRegex first; when that gives an error the
\* error is written under the box and the handler returns, otherwise
\* state.setSearch(pattern, caseSensitive) is called
handleSearch(pattern, caseSensitive) ==
    \E regex \in { CompileSearch(pattern, caseSensitive) } :
    \E r \in {applySearchAndSort(transactions, regex, currentSort)} :
    LET call == [Call("handleSearch", 0, NoForm, FALSE) EXCEPT !.given = <<pattern>>]
    IN /\ started
       /\ \/ /\ regex.kind = "error"
             /\ lastOp' = [call EXCEPT !.shown = <<[text |-> regex.error,
                                                    type |-> "searchError"]>>]
             /\ UNCHANGED <<transactions, settings, filteredTransactions, currentSearch,
                            currentSort, editingId, listeners, localStorage, now, started,
                            reading>>
          \/ /\ regex.kind # "error"
             /\ currentSearch' = [pattern |-> pattern, regex |-> r.regex,
                                  caseSensitive |-> caseSensitive]
             /\ filteredTransactions' = r.filteredTransactions
             /\ lastOp' = call
             /\ UNCHANGED <<transactions, settings, currentSort, editingId, listeners,
                            localStorage, now, started, reading>>

\* setSort() whose view is the canonical array itself and not a copy, so that
\* sort() reorders the canonical list
setSort_aliased(sortBy) ==
    \E r \in {applySearchAndSort(transactions, currentSearch.regex, sortBy)} :
       /\ started
       /\ currentSort' = sortBy
       /\ filteredTransactions' = r.filteredTransactions
       /\ transactions' = r.filteredTransactions
       /\ currentSearch' = [currentSearch EXCEPT !.regex = r.regex]
       /\ lastOp' = Call("setSort", 0, NoForm, FALSE)
       /\ UNCHANGED <<settings, editingId, listeners, localStorage, now, started, reading>>

\* setSort recomputes the view and calls no listener
setSort(sortBy) ==
    \E r \in {applySearchAndSort(transactions, currentSearch.regex, sortBy)} :
       /\ started
       /\ currentSort' = sortBy
       /\ filteredTransactions' = r.filteredTransactions
       /\ currentSearch' = [currentSearch EXCEPT !.regex = r.regex]
       /\ lastOp' = Call("setSort", 0, NoForm, FALSE)
       /\ UNCHANGED <<transactions, settings, editingId, listeners, localStorage, now,
                      started, reading>>

\* importTransactions() that leaves out the given records whose id a record of
\* the list has
importTransactions_deduplicated(newTransactions, writable) ==
    /\ started
    /\ Len(newTransactions) + Len(transactions) <= MaxTransactions
    /\ Recomputed(SelectSeq(newTransactions,
                            LAMBDA t : \A i \in DOMAIN transactions :
                                          transactions[i].id # t.id)
                      \o transactions,
                  writable,
                  [Call("importTransactions", 0, NoForm, FALSE)
                      EXCEPT !.given = newTransactions, !.pending = reading])
    /\ UNCHANGED <<settings, currentSort, editingId, listeners, started>>

importTransactions(newTransactions, writable) ==
    /\ started
    /\ Len(newTransactions) + Len(transactions) <= MaxTransactions
    /\ Recomputed(newTransactions \o transactions, writable,
                  [Call("importTransactions", 0, NoForm, FALSE)
                      EXCEPT !.given = newTransactions, !.pending = reading])
    /\ UNCHANGED <<settings, currentSort, editingId, listeners, started>>

\* ui.js loadSeedData(): the seed records, stamped with the current time, are
\* imported
loadSeedData(writable) ==
    /\ ClockLeft
    /\ importTransactions(
          [i \in 1..NumSeed |->
              [id |-> SeedData[i].id,
               description |-> SeedData[i].description,
               amount |-> SeedData[i].amount,
               category |-> SeedData[i].category,
               date |-> SeedData[i].date,
               createdAt |-> now,
               updatedAt |-> now]],
          writable)
    /\ now' = now + 1
    /\ UNCHANGED reading

\* clearAll() that empties the canonical list and leaves the view as it was
clearAll_keepsView(confirmed, writable) ==
    LET call == Call("clearAll", 0, NoForm, confirmed)
        n == notify(listeners, filteredTransactions, currentSearch.regex)
    IN /\ started
       /\ \/ /\ ~confirmed
             /\ lastOp' = call
             /\ UNCHANGED <<transactions, settings, filteredTransactions, currentSearch,
                            currentSort, editingId, listeners, localStorage, now, started, reading>>
          \/ /\ confirmed
             /\ transactions' = <<>>
             /\ localStorage' = saveTransactions(localStorage, <<>>, writable)
             /\ currentSearch' = [currentSearch EXCEPT !.regex = n.regex]
             /\ lastOp' = [call EXCEPT !.notified = n.notified, !.saved = <<(<<>>)>>,
                                       !.logged = ConsoleErrors(writable,
                                                                "Error saving transactions:"),
                                       !.observed = Observed(n.notified, <<>>,
                                                             filteredTransactions,
                                                             localStorage')]
             /\ UNCHANGED <<settings, filteredTransactions, currentSort, editingId,
                            listeners, now, started, reading>>

clearAll(confirmed, writable) ==
    LET call == Call("clearAll", 0, NoForm, confirmed)
        n == notify(listeners, <<>>, currentSearch.regex)
    IN /\ started
       /\ \/ /\ ~confirmed
             /\ lastOp' = call
             /\ UNCHANGED <<transactions, settings, filteredTransactions, currentSearch,
                            currentSort, editingId, listeners, localStorage, now, started, reading>>
          \/ /\ confirmed
             /\ transactions' = <<>>
             /\ filteredTransactions' = <<>>
             /\ localStorage' = saveTransactions(localStorage, <<>>, writable)
             /\ currentSearch' = [currentSearch EXCEPT !.regex = n.regex]
             /\ lastOp' = [call EXCEPT !.notified = n.notified, !.saved = <<(<<>>)>>,
                                       !.logged = ConsoleErrors(writable,
                                                                "Error saving transactions:"),
                                       !.observed = Observed(n.notified, <<>>, <<>>,
                                                             localStorage')]
             /\ UNCHANGED <<settings, currentSort, editingId, listeners, now, started, reading>>

updateSettings(newSettings, writable) ==
    \E merged \in { Spread(settings, newSettings) } :
    \E n \in { notify(listeners, filteredTransactions, currentSearch.regex) } :
       /\ started
       /\ settings' = merged
       /\ localStorage' = saveSettings(localStorage, merged, writable)
       /\ currentSearch' = [currentSearch EXCEPT !.regex = n.regex]
       /\ lastOp' = [Call("updateSettings", 0, NoForm, FALSE)
                       EXCEPT !.given = newSettings,
                              !.notified = n.notified,
                              !.saved = <<merged>>,
                              !.logged = ConsoleErrors(writable, "Error saving settings:")]
       /\ UNCHANGED <<transactions, filteredTransactions, currentSort, editingId,
                      listeners, now, started, reading>>

\* ui.js saveSettings(): the settings form, read into an object without the
\* key categories, is handed to updateSettings
uiSaveSettings(form, writable) ==
    updateSettings([baseCurrency |-> form.baseCurrency,
                    conversionRates |-> [EUR |-> OrDefault(parseFloat(form.rate1), 850),
                                         GBP |-> OrDefault(parseFloat(form.rate2), 750)],
                    monthlyBudget |-> OrDefault(parseFloat(form.monthlyBudget), 500000)],
                   writable)

setEditing(id) ==
    \E n \in { notify(listeners, filteredTransactions, currentSearch.regex) } :
       /\ started
       /\ editingId' = id
       /\ currentSearch' = [currentSearch EXCEPT !.regex = n.regex]
       /\ lastOp' = [Call("setEditing", id, NoForm, FALSE) EXCEPT !.notified = n.notified]
       /\ UNCHANGED <<transactions, settings, filteredTransactions, currentSort,
                      listeners, localStorage, now, started, reading>>

clearEditing ==
    \E n \in { notify(listeners, filteredTransactions, currentSearch.regex) } :
       /\ started
       /\ editingId' = 0
       /\ currentSearch' = [currentSearch EXCEPT !.regex = n.regex]
       /\ lastOp' = [Call("clearEditing", 0, NoForm, FALSE) EXCEPT !.notified = n.notified]
       /\ UNCHANGED <<transactions, settings, filteredTransactions, currentSort,
                      listeners, localStorage, now, started, reading>>

\* the callback handleImport gives importFromJSON: id, description, category
\* and date are truthy and the amount is a number
ImportedRecordIsValid(item) ==
    /\ item.value.id # 0
    /\ item.value.description # <<>>
    /\ item.typeofAmount = "number"
    /\ item.value.category # <<>>
    /\ item.value.date # <<>>

\* the items of a file's array
ItemsOf(file) == { file.items[k] : k \in DOMAIN file.items }

\* a pending read: the file, and the time at which the read started
Read(file, since) == [file |-> file, since |-> since]

\* ui.js handleImport(e), up to its await: the FileReader starts to read the
\* chosen file; the store is not called
handleImport(file) ==
    /\ started
    /\ Len(reading) < MaxReading
    /\ reading' = Append(reading, Read(file, now))
    /\ lastOp' = [Call("handleImport", 0, NoForm, FALSE) EXCEPT !.given = <<file>>]
    /\ UNCHANGED <<transactions, settings, filteredTransactions, currentSearch, currentSort,
                   editingId, listeners, localStorage, now, started>>

\* the sequence without its i-th element
RemoveAt(seq, i) == SubSeq(seq, 1, i - 1) \o SubSeq(seq, i + 1, Len(seq))

\* handleImport after its await, without the test that a record is left
handleImportAwaited_importsNone(i, writable) ==
    \E result \in { importFromJSON(reading[i].file,
                                    [item \in ItemsOf(reading[i].file) |->
                                        ImportedRecordIsValid(item)]) } :
    LET call == [Call("handleImport", 0, NoForm, FALSE) EXCEPT !.given = <<reading[i].file>>]
    IN /\ reading' = RemoveAt(reading, i)
       /\ \/ /\ result.rejected
             /\ lastOp' = [call EXCEPT !.shown =
                              <<[text |-> "Import failed: " \o result.error.message,
                                 type |-> "error"]>>]
             /\ UNCHANGED <<transactions, settings, filteredTransactions, currentSearch,
                            currentSort, editingId, listeners, localStorage, now, started>>
          \/ /\ ~result.rejected
             /\ importTransactions(result.transactions, writable)
             /\ UNCHANGED now

\* handleImport after its await, putting the records of the file in the place
\* of the canonical list
handleImportAwaited_replaces(i, writable) ==
    \E result \in { importFromJSON(reading[i].file,
                                    [item \in ItemsOf(reading[i].file) |->
                                        ImportedRecordIsValid(item)]) } :
    LET call == [Call("handleImport", 0, NoForm, FALSE) EXCEPT !.given = <<reading[i].file>>]
    IN /\ reading' = RemoveAt(reading, i)
       /\ \/ /\ result.rejected
             /\ lastOp' = [call EXCEPT !.shown =
                              <<[text |-> "Import failed: " \o result.error.message,
                                 type |-> "error"]>>]
             /\ UNCHANGED <<transactions, settings, filteredTransactions, currentSearch,
                            currentSort, editingId, listeners, localStorage, now, started>>
          \/ /\ ~result.rejected
             /\ Len(result.transactions) > 0
             /\ started
             /\ Len(result.transactions) + Len(transactions) <= MaxTransactions
             /\ Recomputed(result.transactions, writable,
                           [Call("importTransactions", 0, NoForm, FALSE)
                               EXCEPT !.given = result.transactions, !.pending = reading])
             /\ UNCHANGED <<settings, currentSort, editingId, listeners, started, now>>
          \/ /\ ~result.rejected
             /\ Len(result.transactions) = 0
             /\ lastOp' = [call EXCEPT !.shown =
                              <<[text |-> "No valid transactions found in file",
                                 type |-> "error"]>>]
             /\ UNCHANGED <<transactions, settings, filteredTransactions, currentSearch,
                            currentSort, editingId, listeners, localStorage, now, started>>

\* the FileReader of the i-th file being read has finished: importFromJSON
\* settles its promise and handleImport goes on after its await
handleImportAwaited(i, writable) ==
    \E result \in { importFromJSON(reading[i].file,
                                    [item \in ItemsOf(reading[i].file) |->
                                        ImportedRecordIsValid(item)]) } :
    LET call == [Call("handleImport", 0, NoForm, FALSE) EXCEPT !.given = <<reading[i].file>>]
    IN /\ reading' = RemoveAt(reading, i)
       /\ \/ /\ result.rejected
             /\ lastOp' = [call EXCEPT !.shown =
                              <<[text |-> "Import failed: " \o result.error.message,
                                 type |-> "error"]>>]
             /\ UNCHANGED <<transactions, settings, filteredTransactions, currentSearch,
                            currentSort, editingId, listeners, localStorage, now, started>>
          \/ /\ ~result.rejected
             /\ Len(result.transactions) > 0
             /\ importTransactions(result.transactions, writable)
             /\ UNCHANGED now
          \/ /\ ~result.rejected
             /\ Len(result.transactions) = 0
             /\ lastOp' = [call EXCEPT !.shown =
                              <<[text |-> "No valid transactions found in file",
                                 type |-> "error"]>>]
             /\ UNCHANGED <<transactions, settings, filteredTransactions, currentSearch,
                            currentSort, editingId, listeners, localStorage, now, started>>

\* ui.js validateField(fieldName), the input handler of a field of the form:
\* the field's validator is applied to the field's value, and its message is
\* shown under the field
validateField(fieldName, value) ==
    \E validation \in { FieldValidation([NoForm EXCEPT ![fieldName] = value], fieldName) } :
       /\ lastOp' = [Call("validateField", 0, [NoForm EXCEPT ![fieldName] = value], FALSE)
                       EXCEPT !.given = <<fieldName>>,
                              !.returned = <<validation>>,
                              !.shown = IF validation.valid THEN <<>>
                                        ELSE <<[text |-> validation.message,
                                                type |-> "field"]>>]
       /\ UNCHANGED <<transactions, settings, filteredTransactions, currentSearch,
                      currentSort, editingId, listeners, localStorage, now, started, reading>>

\* subscribe(listener): the listener is pushed, whether or not it is there
\* already
subscribe(listener) ==
    /\ Len(listeners) < MaxListeners
    /\ listeners' = Append(listeners, listener)
    /\ lastOp' = [Call("subscribe", 0, NoForm, FALSE) EXCEPT !.given = <<listener>>]
    /\ UNCHANGED <<transactions, settings, filteredTransactions, currentSearch,
                   currentSort, editingId, localStorage, now, started, reading>>

\* the function subscribe(listener) returned, taking out one registration of
\* the listener, the earliest, as listeners.splice(listeners.indexOf(listener), 1)
\* would
unsubscribe_firstOnly(listener) ==
    /\ listener \in Range(listeners)
    /\ listeners' = LET first == CHOOSE i \in DOMAIN listeners :
                                    /\ listeners[i] = listener
                                    /\ \A j \in 1..(i - 1) : listeners[j] # listener
                    IN SubSeq(listeners, 1, first - 1)
                       \o SubSeq(listeners, first + 1, Len(listeners))
    /\ lastOp' = [Call("unsubscribe", 0, NoForm, FALSE) EXCEPT !.given = <<listener>>]
    /\ UNCHANGED <<transactions, settings, filteredTransactions, currentSearch,
                   currentSort, editingId, localStorage, now, started, reading>>

\* the function subscribe(listener) returned is called: every occurrence of
\* the listener is taken out
unsubscribe(listener) ==
    /\ listener \in Range(listeners)
    /\ listeners' = SelectSeq(listeners, LAMBDA l : l # listener)
    /\ lastOp' = [Call("unsubscribe", 0, NoForm, FALSE) EXCEPT !.given = <<listener>>]
    /\ UNCHANGED <<transactions, settings, filteredTransactions, currentSearch,
                   currentSort, editingId, localStorage, now, started, reading>>

\* ui.js handleFormSubmit, the submit handler of the form: with an editingId
\* the record of that id is updated, without one a record is added; when the
\* store call returned, the success message is shown and resetForm() calls
\* clearEditing(), which notifies once more; when it threw, the message of
\* the error is shown and the form and editingId stay
handleFormSubmit(formData, writable) ==
    \E validation \in { Validated[formData] } :
    LET call == Call("handleFormSubmit", editingId, formData, FALSE)
        index == findIndex(transactions, editingId)
        updatedTransaction == [transactions[index] EXCEPT
                                  !.description = validation.cleaned.description,
                                  !.amount = validation.cleaned.amount,
                                  !.category = validation.cleaned.category,
                                  !.date = validation.cleaned.date,
                                  !.updatedAt = getTimestamp]
        transaction == [id |-> generateId,
                        description |-> validation.cleaned.description,
                        amount |-> validation.cleaned.amount,
                        category |-> validation.cleaned.category,
                        date |-> validation.cleaned.date,
                        createdAt |-> getTimestamp,
                        updatedAt |-> getTimestamp]
        Failed(message) ==
            /\ lastOp' = [call EXCEPT !.error = [message |-> message],
                                      !.shown = <<[text |-> message, type |-> "error"]>>]
            /\ UNCHANGED <<transactions, settings, filteredTransactions, currentSearch,
                           currentSort, editingId, listeners, localStorage, now, started,
                           reading>>
        Submitted(list, result, message) ==
            \E r \in {applySearchAndSort(list, currentSearch.regex, currentSort)} :
            \E n \in {notify(listeners, r.filteredTransactions, r.regex)} :
            \E cleared \in {notify(listeners, r.filteredTransactions, n.regex)} :
               /\ transactions' = list
               /\ filteredTransactions' = r.filteredTransactions
               /\ localStorage' = saveTransactions(localStorage, list, writable)
               /\ currentSearch' = [currentSearch EXCEPT !.regex = cleared.regex]
               /\ editingId' = 0
               /\ now' = now + 1
               /\ lastOp' = [call EXCEPT
                               !.returned = <<result>>,
                               !.notified = n.notified \o cleared.notified,
                               !.saved = <<list>>,
                               !.logged = ConsoleErrors(writable, "Error saving transactions:"),
                               !.shown = <<[text |-> message, type |-> "success"]>>]
               /\ UNCHANGED <<settings, currentSort, listeners, started, reading>>
    IN /\ started
       /\ \/ /\ ~validation.isValid
             /\ Failed("Invalid transaction data")
          \/ /\ validation.isValid
             /\ editingId # 0
             /\ index = 0
             /\ Failed("Transaction not found")
          \/ /\ validation.isValid
             /\ editingId # 0
             /\ index # 0
             /\ ClockLeft
             /\ Submitted([transactions EXCEPT ![index] = updatedTransaction],
                          updatedTransaction, "Transaction updated successfully")
          \/ /\ validation.isValid
             /\ editingId = 0
             /\ ClockLeft
             /\ Len(transactions) < MaxTransactions
             /\ Submitted(<<transaction>> \o transactions, transaction,
                          "Transaction added successfully")

\* the words of the descriptions given to validateTransaction: a beverage in
\* two cases, a word that begins with one, and words that are none
DescriptionWords ==
    { <<"c","o","f","f","e","e">>, <<"C","o","f","f","e","e">>, <<"t","e","a">>,
      <<"t","e","a","s">>, <<"b","u","s">>, <<"B","U","S">> }

\* words.join(' ')
RECURSIVE Joined(_)
Joined(words) ==
    IF words = <<>> THEN <<>>
    ELSE IF Len(words) = 1 THEN words[1]
    ELSE words[1] \o <<" ">> \o Joined(Tail(words))

\* the descriptions given to validateTransaction: up to MaxWords words with
\* one space between them, and two words with two spaces, a tab or a hyphen
\* between them
WarningDescriptions ==
    { Joined(words) : words \in UNION { [1..n -> DescriptionWords] : n \in 0..MaxWords } }
    \cup { <<"b","u","s">> \o between \o <<"b","u","s">> :
             between \in { <<" "," ">>, <<"\t">>, <<"-">> } }

\* the forms given to validateTransaction
WarningForms ==
    { Chars(description, amount, <<"F","o","o","d">>,
            <<"2","0","2","5","-","0","1","-","1","0">>) :
        description \in WarningDescriptions,
        amount \in { <<>>, <<"4","5">>, <<"3",".","5","0">> } }

\* validateTransaction(formData) called with the form: the result is what it
\* returns, and nothing of the store is read or changed
validateTransactionCall(formData) ==
    /\ lastOp' = [Call("validateTransaction", 0, formData, FALSE)
                    EXCEPT !.returned = <<validateTransaction(formData)>>]
    /\ UNCHANGED <<transactions, settings, filteredTransactions, currentSearch,
                   currentSort, editingId, listeners, localStorage, now, started, reading>>

\* validateTransaction applied to every form of words.
NextWarnings == \E formData \in WarningForms : validateTransactionCall(formData)

SpecWarnings == Init /\ [][NextWarnings]_vars

\* updateStats() whose statistics are taken over the view on the page
updateStats_overView ==
    /\ started
    /\ lastOp' = [Call("getStats", 0, NoForm, FALSE)
                    EXCEPT !.returned = <<getStats(filteredTransactions, settings)>>]
    /\ UNCHANGED <<transactions, settings, filteredTransactions, currentSearch,
                   currentSort, editingId, listeners, localStorage, now, started, reading>>

\* updateStats: const stats = state.getStats(), which reads this.transactions
\* and this.settings and assigns no field of the store; the statistics go to
\* the text of the dashboard
updateStats ==
    /\ started
    /\ lastOp' = [Call("getStats", 0, NoForm, FALSE)
                    EXCEPT !.returned = <<getStats(transactions, settings)>>]
    /\ UNCHANGED <<transactions, settings, filteredTransactions, currentSearch,
                   currentSort, editingId, listeners, localStorage, now, started, reading>>

\* The canonical list under every mutation, with the search and the sort as
\* the constructor leaves them; every write to localStorage succeeds.
Next ==
    \/ init
    \/ \E formData \in FormInputs : addTransaction(formData, TRUE)
    \/ \E id \in IdChoices, formData \in FormInputs : updateTransaction(id, formData, TRUE)
    \/ \E id \in IdChoices, confirmed \in BOOLEAN : deleteTransaction(id, confirmed, TRUE)
    \/ loadSeedData(TRUE)
    \/ \E confirmed \in BOOLEAN : clearAll(confirmed, TRUE)

Spec == Init /\ [][Next]_vars

\* The view under every search and sort setting, with one form that is valid
\* and one that is not.
ViewForms ==
    { Chars(<<"T","e","a">>, <<"3",".","5","0">>, <<"f","o","o","d">>,
            <<"2","0","2","5","-","0","1","-","1","0">>),
      Chars(<<"T","e","a">>, <<"1","0",".","5","0","0">>, <<"F">>,
            <<"2","0","2","5","-","0","2","-","3","0">>) }

NextView ==
    \/ init
    \/ \E formData \in ViewForms : addTransaction(formData, TRUE)
    \/ \E id \in IdChoices, formData \in ViewForms : updateTransaction(id, formData, TRUE)
    \/ \E id \in IdChoices, confirmed \in BOOLEAN : deleteTransaction(id, confirmed, TRUE)
    \/ \E search \in SearchInputs : setSearch(search.pattern, search.caseSensitive)
    \/ \E sortBy \in SortKeys : setSort(sortBy)
    \/ loadSeedData(TRUE)
    \/ \E confirmed \in BOOLEAN : clearAll(confirmed, TRUE)

SpecView == Init /\ [][NextView]_vars

\* The statistics of the dashboard read under every search and sort setting.
NextStats ==
    \/ init
    \/ \E formData \in ViewForms : addTransaction(formData, TRUE)
    \/ \E id \in IdChoices : deleteTransaction(id, TRUE, TRUE)
    \/ \E search \in SearchInputs : setSearch(search.pattern, search.caseSensitive)
    \/ \E sortBy \in SortKeys : setSort(sortBy)
    \/ updateStats

SpecStats == Init /\ [][NextStats]_vars

\* what the settings form holds when one of its fields changes: the budget
\* field empty, 0, the amount of one record, an amount below the sum of three
SettingsForms ==
    { [baseCurrency |-> "USD", rate1 |-> <<"0",".","8","5">>, rate2 |-> <<"0",".","7","5">>,
       monthlyBudget |-> <<>>],
      [baseCurrency |-> "EUR", rate1 |-> <<>>, rate2 |-> <<"0",".","8">>,
       monthlyBudget |-> <<"0">>],
      [baseCurrency |-> "USD", rate1 |-> <<"0",".","8","5">>, rate2 |-> <<"0",".","7","5">>,
       monthlyBudget |-> <<"3",".","5">>],
      [baseCurrency |-> "USD", rate1 |-> <<"0",".","8","5">>, rate2 |-> <<"0",".","7","5">>,
       monthlyBudget |-> <<"6","0">>] }

\* the ids of the rows of the table, whose edit buttons call setEditing
RowIds == { transactions[i].id : i \in DOMAIN transactions }

\* The store with its settings; every write to localStorage succeeds.
NextSettings ==
    \/ init
    \/ \E formData \in ViewForms : addTransaction(formData, TRUE)
    \/ \E id \in IdChoices, formData \in ViewForms : updateTransaction(id, formData, TRUE)
    \/ \E id \in IdChoices, confirmed \in BOOLEAN : deleteTransaction(id, confirmed, TRUE)
    \/ loadSeedData(TRUE)
    \/ \E confirmed \in BOOLEAN : clearAll(confirmed, TRUE)
    \/ \E form \in SettingsForms : uiSaveSettings(form, TRUE)

SpecSettings == Init /\ [][NextSettings]_vars

\* the settings form with a budget of 60
BudgetForms == { form \in SettingsForms : form.monthlyBudget = <<"6", "0">> }

\* the form that is accepted
AcceptedForms == ViewForms \cap ValidForms

\* The operations that write to localStorage, given what reaches the write (an
\* accepted form, the id of a record, a confirmed prompt); each write succeeds
\* or throws (the quota is used up).
NextFailing ==
    \/ init
    \/ \E formData \in AcceptedForms, writable \in BOOLEAN :
          addTransaction(formData, writable)
    \/ \E id \in RowIds, formData \in AcceptedForms, writable \in BOOLEAN :
          updateTransaction(id, formData, writable)
    \/ \E id \in RowIds, writable \in BOOLEAN : deleteTransaction(id, TRUE, writable)
    \/ \E writable \in BOOLEAN : loadSeedData(writable)
    \/ \E writable \in BOOLEAN : clearAll(TRUE, writable)
    \/ \E form \in BudgetForms, writable \in BOOLEAN : uiSaveSettings(form, writable)

SpecFailing == Init /\ [][NextFailing]_vars

\* Every operation that calls the subscribers, the record being edited
\* included; every write to localStorage succeeds.
NextEditing ==
    \/ init
    \/ \E formData \in ViewForms : addTransaction(formData, TRUE)
    \/ \E id \in IdChoices, formData \in ViewForms : updateTransaction(id, formData, TRUE)
    \/ \E id \in IdChoices, confirmed \in BOOLEAN : deleteTransaction(id, confirmed, TRUE)
    \/ loadSeedData(TRUE)
    \/ \E confirmed \in BOOLEAN : clearAll(confirmed, TRUE)
    \/ \E form \in BudgetForms : uiSaveSettings(form, TRUE)
    \/ \E id \in RowIds : setEditing(id)
    \/ clearEditing

SpecEditing == Init /\ [][NextEditing]_vars

\* The form submitted while a record is or is not being edited, with the
\* removals and the import of the seed data between the click on a row's
\* edit button and the submit; every write to localStorage succeeds.
NextSubmit ==
    \/ init
    \/ \E id \in RowIds : setEditing(id)
    \/ clearEditing
    \/ \E formData \in ViewForms : handleFormSubmit(formData, TRUE)
    \/ \E id \in RowIds, confirmed \in BOOLEAN : deleteTransaction(id, confirmed, TRUE)
    \/ \E confirmed \in BOOLEAN : clearAll(confirmed, TRUE)
    \/ loadSeedData(TRUE)

SpecSubmit == Init /\ [][NextSubmit]_vars

\* The search box of the page, with the sort select and the additions and
\* removals that change what a search shows; every write to localStorage
\* succeeds.
NextSearch ==
    \/ init
    \/ \E search \in SearchInputs : handleSearch(search.pattern, search.caseSensitive)
    \/ \E sortBy \in SortKeys : setSort(sortBy)
    \/ \E formData \in ViewForms : addTransaction(formData, TRUE)
    \/ \E id \in RowIds : deleteTransaction(id, TRUE, TRUE)

SpecSearch == Init /\ [][NextSearch]_vars

\* The page opened over every content of localStorage, and the operations
\* that follow an init that ended; every write to localStorage succeeds.
NextStartup ==
    \/ init
    \/ \E formData \in AcceptedForms : addTransaction(formData, TRUE)
    \/ \E sortBy \in SortKeys : setSort(sortBy)
    \/ \E form \in BudgetForms : uiSaveSettings(form, TRUE)
    \/ \E confirmed \in BOOLEAN : clearAll(confirmed, TRUE)

SpecStartup == InitStartup /\ [][NextStartup]_vars

\* The fields of the form as they are typed into, before and after init.
NextValidate ==
    \/ init
    \/ \E fieldName \in FieldNames :
          \E value \in FieldInputs(fieldName) : validateField(fieldName, value)

SpecValidate == Init /\ [][NextValidate]_vars

\* the listeners a caller of the store subscribes, besides the one of the page
Subscribers == {"stats", "chart"}

\* The mutations under every list of listeners; a write to localStorage
\* succeeds or throws, and the user confirms every removal.
NextSubscribers ==
    \/ init
    \/ \E listener \in Subscribers : subscribe(listener)
    \/ \E listener \in Subscribers : unsubscribe(listener)
    \/ \E formData \in ViewForms, writable \in BOOLEAN : addTransaction(formData, writable)
    \/ \E id \in RowIds : deleteTransaction(id, TRUE, TRUE)
    \/ loadSeedData(TRUE)
    \/ clearAll(TRUE, TRUE)

SpecSubscribers == Init /\ [][NextSubscribers]_vars

\* a record as a file to import gives it
Imported(id, description, amount, category, date) ==
    [id |-> id, description |-> description, amount |-> amount, category |-> category,
     date |-> date, createdAt |-> 0, updatedAt |-> 0]

\* the files the user chooses: one that cannot be read, one that is no JSON,
\* the JSON null, an object without transactions, one whose transactions is a
\* string, one with an empty array, one whose records are all rejected (an
\* amount that is a string, a description that is empty), one with a null in
\* its array, one with a rejected record between two records that pass, the
\* first with the id of a record of the earlier run, the last with the amount
\* -5
ImportFiles ==
    { File("unreadable", "absent", <<>>),
      File("unparsable", "absent", <<>>),
      File("null", "absent", <<>>),
      File("object", "absent", <<>>),
      File("object", "string", <<>>),
      File("object", "array", <<>>),
      File("object", "array",
           << Item(TRUE, "string",
                   Imported(7, <<"P","e","n">>, 0, <<"B","o","o","k","s">>,
                            <<"2","0","2","5","-","0","3","-","0","1">>)),
              Item(TRUE, "number",
                   Imported(8, <<>>, 2000, <<"B","o","o","k","s">>,
                            <<"2","0","2","5","-","0","3","-","0","2">>)) >>),
      File("object", "array",
           << Item(TRUE, "number",
                   Imported(7, <<"P","e","n">>, 1250, <<"B","o","o","k","s">>,
                            <<"2","0","2","5","-","0","3","-","0","1">>)),
              Item(FALSE, "undefined", Imported(0, <<>>, 0, <<>>, <<>>)) >>),
      File("object", "array",
           << Item(TRUE, "number",
                   Imported(1000, <<"P","e","n">>, 1250, <<"B","o","o","k","s">>,
                            <<"2","0","2","5","-","0","3","-","0","1">>)),
              Item(TRUE, "undefined",
                   Imported(8, <<"I","n","k">>, 0, <<"B","o","o","k","s">>,
                            <<"2","0","2","5","-","0","3","-","0","2">>)),
              Item(TRUE, "number",
                   Imported(9, <<"I","n","k">>, 0 - 5000, <<"7">>,
                            <<"2","0","2","4","-","0","3","-","0","2">>)) >>) }

\* The import of every file, into the list as the removals leave it; every
\* write to localStorage succeeds.
NextImport ==
    \/ init
    \/ \E id \in RowIds, confirmed \in BOOLEAN : deleteTransaction(id, confirmed, TRUE)
    \/ \E confirmed \in BOOLEAN : clearAll(confirmed, TRUE)
    \/ \E file \in ImportFiles : handleImport(file)
    \/ \E i \in DOMAIN reading : handleImportAwaited(i, TRUE)

SpecImport == Init /\ [][NextImport]_vars

\* the files with a record that passes
FilesWithRecords ==
    { file \in ImportFiles : \E k \in DOMAIN file.items : ImportedRecordIsValid(file.items[k]) }

\* The mutations that run while a file is being read; every write to
\* localStorage succeeds and the user confirms every removal.
NextInterleaved ==
    \/ init
    \/ \E formData \in AcceptedForms : addTransaction(formData, TRUE)
    \/ \E id \in RowIds, formData \in AcceptedForms : updateTransaction(id, formData, TRUE)
    \/ \E id \in RowIds : deleteTransaction(id, TRUE, TRUE)
    \/ clearAll(TRUE, TRUE)
    \/ \E file \in FilesWithRecords : handleImport(file)
    \/ \E i \in DOMAIN reading : handleImportAwaited(i, TRUE)

SpecInterleaved == Init /\ [][NextInterleaved]_vars

(***************************************************************************)
(* The contract of the store                                               *)
(***************************************************************************)

\* the four form fields of a record are the cleaned input
HoldsCleaned(record, cleaned) ==
    /\ record.description = cleaned.description
    /\ record.amount = cleaned.amount
    /\ record.category = cleaned.category
    /\ record.date = cleaned.date

\* what a failed call leaves as it was
StoreUntouched ==
    UNCHANGED <<transactions, filteredTransactions, currentSearch, currentSort, settings,
                localStorage>>

\* some record of the list has the id
Present(list, id) == \E i \in DOMAIN list : list[i].id = id

\* C1: addTransaction of a form that validateTransaction accepts grows the
\* canonical list by one record at index 0, the records that were there keep
\* their content and order, the new record has an id no record had before,
\* createdAt equal to updatedAt and the cleaned input in its four fields, and
\* getTransaction of the returned id gives that record.
C1_AddPrependsFreshRecord ==
    [][ (lastOp'.op = "addTransaction" /\ Validated[lastOp'.formData].isValid) =>
            /\ ~lastOp'.threw
            /\ Len(transactions') = Len(transactions) + 1
            /\ Tail(transactions') = transactions
            /\ ~Present(transactions, transactions'[1].id)
            /\ transactions'[1].createdAt = transactions'[1].updatedAt
            /\ HoldsCleaned(transactions'[1], Validated[lastOp'.formData].cleaned)
            /\ lastOp'.returned = <<transactions'[1]>>
            /\ getTransaction(lastOp.returned[1].id)' = lastOp'.returned
      ]_vars

\* an accepted form whose description and category are changed by cleaning has
\* been added in front of two records
C1_Witness ==
    /\ lastOp.op = "addTransaction"
    /\ ~lastOp.threw
    /\ lastOp.formData.description = <<"a", "\t", "b">>
    /\ Len(transactions) = 3
    /\ transactions[1].description = <<"a", " ", "b">>
    /\ transactions[1].category = <<"F", "e", "e", "s">>
    /\ transactions[1].amount = 45000
    /\ getTransaction(transactions[1].id) = lastOp.returned

\* C2: addTransaction and updateTransaction of a form that fails validation
\* raise an error and leave the canonical list, the view, the search, the sort,
\* the settings and localStorage as they were, and call no listener.
C2_InvalidFormChangesNothing ==
    [][ (/\ lastOp'.op \in {"addTransaction", "updateTransaction"}
         /\ ~Validated[lastOp'.formData].isValid) =>
            /\ lastOp'.threw
            /\ StoreUntouched
            /\ lastOp'.notified = <<>>
            /\ lastOp'.saved = <<>>
      ]_vars

\* a form that fails validation has been refused while a search and a sort
\* other than the initial ones were set on a list with records
C2_Witness ==
    /\ lastOp.op \in {"addTransaction", "updateTransaction"}
    /\ lastOp.threw
    /\ ~Validated[lastOp.formData].isValid
    /\ transactions # <<>>
    /\ currentSearch.regex.kind = "regexp"
    /\ currentSort = "amount-asc"

\* C3: the error addTransaction and updateTransaction raise for a form that
\* fails validation carries the field-level errors: the fields that failed,
\* each with its message.
C3_ErrorCarriesFieldErrors ==
    (/\ lastOp.op \in {"addTransaction", "updateTransaction"}
     /\ lastOp.threw
     /\ ~Validated[lastOp.formData].isValid) =>
        /\ "errors" \in DOMAIN lastOp.error
        /\ lastOp.error.errors = Validated[lastOp.formData].errors

\* C4: updateTransaction of an accepted form and an id of the canonical list
\* replaces the record at its position, keeps its id and createdAt, sets the
\* four fields to the cleaned input and updatedAt to the current timestamp,
\* and leaves the length of the list and every other record as they were.
C4_UpdateReplacesInPlace ==
    [][ (/\ lastOp'.op = "updateTransaction"
         /\ Validated[lastOp'.formData].isValid
         /\ Present(transactions, lastOp'.id)) =>
            LET index == findIndex(transactions, lastOp'.id)
            IN /\ ~lastOp'.threw
               /\ Len(transactions') = Len(transactions)
               /\ \A i \in DOMAIN transactions :
                     i # index => transactions'[i] = transactions[i]
               /\ transactions'[index].id = lastOp'.id
               /\ transactions'[index].createdAt = transactions[index].createdAt
               /\ HoldsCleaned(transactions'[index], Validated[lastOp'.formData].cleaned)
               /\ transactions'[index].updatedAt = getTimestamp
               /\ lastOp'.returned = <<transactions'[index]>>
      ]_vars

\* a record that is not the first of the list has been updated, later than it
\* was created, with a form that cleaning changes
C4_Witness ==
    /\ lastOp.op = "updateTransaction"
    /\ ~lastOp.threw
    /\ Len(transactions) >= 2
    /\ findIndex(transactions, lastOp.id) = 2
    /\ transactions[2] = lastOp.returned[1]
    /\ transactions[2].updatedAt > transactions[2].createdAt
    /\ transactions[2].description = <<"a", " ", "b">>

\* C5: updateTransaction of an accepted form and an id that no record of the
\* canonical list has raises "Transaction not found" and leaves the canonical
\* list, the view and localStorage as they were, and calls no listener.
C5_UpdateOfAbsentIdChangesNothing ==
    [][ (/\ lastOp'.op = "updateTransaction"
         /\ Validated[lastOp'.formData].isValid
         /\ ~Present(transactions, lastOp'.id)) =>
            /\ lastOp'.threw
            /\ lastOp'.error.message = "Transaction not found"
            /\ UNCHANGED <<transactions, filteredTransactions, localStorage>>
            /\ lastOp'.notified = <<>>
            /\ lastOp'.saved = <<>>
      ]_vars

\* an update of an id that no record has was refused on a list with records
C5_Witness ==
    /\ lastOp.op = "updateTransaction"
    /\ lastOp.threw
    /\ lastOp.error.message = "Transaction not found"
    /\ Validated[lastOp.formData].isValid
    /\ ~Present(transactions, lastOp.id)
    /\ Len(transactions) >= 2

\* C6: a confirmed deleteTransaction of the id of a record of the canonical
\* list makes getTransaction of that id give nothing and takes exactly one
\* record off the list, in every state the store reaches, those reached by
\* importTransactions included.
C6_DeleteRemovesExactlyOne ==
    [][ (/\ lastOp'.op = "deleteTransaction"
         /\ lastOp'.confirmed
         /\ Present(transactions, lastOp'.id)) =>
            /\ getTransaction(lastOp.id)' = <<>>
            /\ Len(transactions') = Len(transactions) - 1
      ]_vars

\* C7: when the user declines the prompt, deleteTransaction returns false and
\* clearAll returns, and the canonical list, the view and localStorage are as
\* they were and no listener is called.
C7_DeclinedChangesNothing ==
    [][ (/\ lastOp'.op \in {"deleteTransaction", "clearAll"}
         /\ ~lastOp'.confirmed) =>
            /\ ~lastOp'.threw
            /\ lastOp'.op = "deleteTransaction" => lastOp'.returned = <<FALSE>>
            /\ lastOp'.op = "clearAll" => lastOp'.returned = <<>>
            /\ UNCHANGED <<transactions, filteredTransactions, localStorage>>
            /\ lastOp'.notified = <<>>
            /\ lastOp'.saved = <<>>
      ]_vars

\* the deletion of a record of the list was declined
C7_Witness ==
    /\ lastOp.op = "deleteTransaction"
    /\ ~lastOp.confirmed
    /\ lastOp.returned = <<FALSE>>
    /\ Present(transactions, lastOp.id)
    /\ Len(transactions) = MaxTransactions

\* C8: when the user accepts the prompt, clearAll leaves the canonical list
\* and the view empty, writes the empty list to localStorage and calls the
\* listeners; the settings, the search and the sort are as they were.
C8_AcceptedClearAllEmpties ==
    [][ (lastOp'.op = "clearAll" /\ lastOp'.confirmed) =>
            /\ transactions' = <<>>
            /\ filteredTransactions' = <<>>
            /\ lastOp'.saved = << <<>> >>
            /\ localStorage'[STORAGE_KEY] = JSONstringify(<<>>)
            /\ lastOp'.notified = listeners
            /\ lastOp'.notified # <<>>
            /\ UNCHANGED <<settings, currentSearch, currentSort>>
      ]_vars

\* clearAll was accepted under a search that had just matched a record and a
\* sort other than the initial one
C8_Witness ==
    /\ lastOp.op = "clearAll"
    /\ lastOp.confirmed
    /\ transactions = <<>>
    /\ currentSearch.regex.kind = "regexp"
    /\ currentSearch.regex.lastIndex > 0
    /\ currentSort = "amount-asc"

\* C9: in every reachable state no two records of the canonical list have the
\* same id.
C9_IdsAreUnique ==
    \A i, j \in DOMAIN transactions :
        transactions[i].id = transactions[j].id => i = j

\* how many records of the list are the record
Count(list, record) == Cardinality({ i \in DOMAIN list : list[i] = record })

\* the view holds the records of the canonical list, each as often, and no
\* record of the view is before one that the sort key puts in front of it
WholeListInSortOrder ==
    /\ Len(filteredTransactions) = Len(transactions)
    /\ \A i \in DOMAIN transactions :
          Count(filteredTransactions, transactions[i]) = Count(transactions, transactions[i])
    /\ \A i \in 1..(Len(filteredTransactions) - 1) :
          SortComparison(currentSort, filteredTransactions[i],
                         filteredTransactions[i + 1]) <= 0

\* C10: setSearch raises nothing; while a pattern that fails to compile is set,
\* the search holds an error marker and no matcher, and the view is the whole
\* canonical list in the order of the current sort key, also after every later
\* add, update, delete and import.
C10_InvalidPatternShowsWholeList ==
    /\ lastOp.op = "setSearch" => ~lastOp.threw
    /\ RegExpSyntaxError(currentSearch.pattern) # "" =>
          /\ currentSearch.regex.kind = "error"
          /\ currentSearch.regex.error # ""
          /\ WholeListInSortOrder

\* under a pattern that does not compile a record was added, and the view
\* holds the three records in another order than the canonical list
C10_Witness ==
    /\ RegExpSyntaxError(currentSearch.pattern) # ""
    /\ currentSearch.regex.kind = "error"
    /\ lastOp.op = "addTransaction"
    /\ ~lastOp.threw
    /\ Len(filteredTransactions) = 3
    /\ filteredTransactions # transactions

\* C11: in every state after init the view is non-decreasing in amount
\* whenever the sort key is 'amount-asc', and non-increasing in date whenever
\* the sort key is 'date-desc'.
C11_ViewFollowsSortKey ==
    started =>
        /\ currentSort = "amount-asc" =>
              \A i \in 1..(Len(filteredTransactions) - 1) :
                  filteredTransactions[i].amount <= filteredTransactions[i + 1].amount
        /\ currentSort = "date-desc" =>
              \A i \in 1..(Len(filteredTransactions) - 1) :
                  DateValue(filteredTransactions[i].date)
                      >= DateValue(filteredTransactions[i + 1].date)

\* C12: setSearch and setSort call every subscriber, once, after they have
\* recomputed the view.
C12_SearchAndSortNotify ==
    [][ lastOp'.op \in {"setSearch", "setSort"} =>
            /\ lastOp'.notified = listeners
            /\ listeners # <<>>
      ]_vars

\* C15: setSearch and setSort leave the canonical list, the settings and
\* localStorage as they were and hand nothing to persistence; they change the
\* search, the sort and the view only.
C15_SearchAndSortTouchViewOnly ==
    [][ lastOp'.op \in {"setSearch", "setSort"} =>
            /\ UNCHANGED <<transactions, settings, localStorage, editingId, listeners>>
            /\ lastOp'.saved = <<>>
            /\ lastOp'.logged = <<>>
            /\ ~lastOp'.threw
      ]_vars

\* setSort has put the view in another order than the canonical list
C15_Witness ==
    /\ lastOp.op = "setSort"
    /\ currentSort = "amount-asc"
    /\ Len(filteredTransactions) = 3
    /\ filteredTransactions # transactions
    /\ localStorage[STORAGE_KEY] = JSONstringify(transactions)

\* the records of the list that the matcher selects: all of them without a
\* matcher, else those whose text holds a match of the pattern
Selected(list, regex) ==
    IF NoMatcher(regex) THEN list
    ELSE SelectSeq(list, LAMBDA t :
            RegExpTest([regex EXCEPT !.lastIndex = 0], Searchable(t)).matched)

\* C13: whenever the subscribers have been called (by init, add, update,
\* delete, import, clearAll, updateSettings, setEditing or clearEditing) the
\* view they read is the canonical list filtered by the current matcher and
\* then sorted by the current sort key.
C13_SubscribersSeeFilteredSortedView ==
    lastOp.notified # <<>> =>
        filteredTransactions =
            applySort(Selected(transactions, currentSearch.regex), currentSort)

\* the call ran to its end: it did not throw and the user did not decline
Completed(call) ==
    \/ call.op \in {"addTransaction", "updateTransaction"} /\ ~call.threw
    \/ call.op \in {"deleteTransaction", "clearAll"} /\ call.confirmed
    \/ call.op = "importTransactions"

\* C14: when the write succeeds, after each completed addTransaction,
\* updateTransaction, confirmed deleteTransaction, importTransactions and
\* accepted clearAll the list in localStorage is the canonical list, and after
\* each updateSettings the settings in localStorage are the settings of the
\* store.
C14_PersistedEqualsInMemory ==
    [][ lastOp'.logged = <<>> =>
            /\ Completed(lastOp') =>
                  /\ localStorage'[STORAGE_KEY] = JSONstringify(transactions')
                  /\ loadTransactions(localStorage') = transactions'
            /\ lastOp'.op = "updateSettings" =>
                  /\ localStorage'[SETTINGS_KEY] = JSONstringify(settings')
                  /\ loadSettings(localStorage') = settings'
      ]_vars

\* an update was written after an earlier write had failed and left
\* localStorage behind the canonical list
C14_Witness ==
    /\ lastOp.op = "updateTransaction"
    /\ ~lastOp.threw
    /\ lastOp.logged = <<>>
    /\ Len(transactions) = 3
    /\ loadTransactions(localStorage) = transactions
    /\ loadSettings(localStorage) # settings

\* C16: when the write to localStorage fails during add, update, delete,
\* import, clearAll or updateSettings, the call does not throw: the in-memory
\* state is updated, the view recomputed, the subscribers called and the
\* normal result returned, while localStorage stays as it was.
C16_FailedWriteIsNotPropagated ==
    [][ lastOp'.logged # <<>> =>
            /\ ~lastOp'.threw
            /\ localStorage' = localStorage
            /\ lastOp'.notified = listeners
            /\ listeners # <<>>
            /\ lastOp'.op = "updateSettings" =>
                  /\ settings' = lastOp'.saved[1]
                  /\ \A k \in DOMAIN lastOp'.given : settings'[k] = lastOp'.given[k]
            /\ lastOp'.op # "updateSettings" =>
                  /\ transactions' = lastOp'.saved[1]
                  /\ filteredTransactions' =
                        applySort(Selected(transactions', currentSearch'.regex), currentSort')
            /\ lastOp'.op = "addTransaction" =>
                  /\ transactions' = lastOp'.returned \o transactions
                  /\ Len(lastOp'.returned) = 1
            /\ lastOp'.op = "updateTransaction" =>
                  /\ lastOp'.returned = <<transactions'[findIndex(transactions, lastOp'.id)]>>
                  /\ HoldsCleaned(lastOp'.returned[1], Validated[lastOp'.formData].cleaned)
            /\ lastOp'.op = "deleteTransaction" =>
                  /\ ~Present(transactions', lastOp'.id)
                  /\ lastOp'.returned = <<TRUE>>
            /\ lastOp'.op = "importTransactions" =>
                  transactions' = lastOp'.given \o transactions
            /\ lastOp'.op = "clearAll" =>
                  /\ transactions' = <<>>
                  /\ filteredTransactions' = <<>>
      ]_vars

\* the write of an added record failed: the record is in the canonical list
\* and in the view, and not in localStorage
C16_Witness ==
    /\ lastOp.op = "addTransaction"
    /\ lastOp.logged # <<>>
    /\ lastOp.returned = <<transactions[1]>>
    /\ lastOp.returned[1] \in Range(filteredTransactions)
    /\ lastOp.returned[1] \notin Range(loadTransactions(localStorage))

\* C17: updateSettings(partial) gives every key of partial the value partial
\* has for it, keeps every other key of the settings, writes the merged
\* settings to localStorage, calls the subscribers, and leaves the canonical
\* list and the view as they were.
C17_UpdateSettingsMerges ==
    [][ lastOp'.op = "updateSettings" =>
            /\ DOMAIN settings' = DOMAIN settings \cup DOMAIN lastOp'.given
            /\ \A k \in DOMAIN lastOp'.given : settings'[k] = lastOp'.given[k]
            /\ \A k \in DOMAIN settings \ DOMAIN lastOp'.given : settings'[k] = settings[k]
            /\ lastOp'.saved = <<settings'>>
            /\ localStorage'[SETTINGS_KEY] = JSONstringify(settings')
            /\ lastOp'.notified = listeners
            /\ listeners # <<>>
            /\ UNCHANGED <<transactions, filteredTransactions>>
      ]_vars

\* settings without the key categories were merged: the budget and the
\* currency are the new ones, the categories the default ones
C17_Witness ==
    /\ lastOp.op = "updateSettings"
    /\ "categories" \notin DOMAIN lastOp.given
    /\ settings.monthlyBudget = 3500
    /\ settings.categories = DEFAULT_SETTINGS.categories
    /\ transactions # <<>>

\* C18: in every reachable state getStats gives budget.used the sum of the
\* canonical amounts, budget.total the configured monthly budget (500 when
\* none is set), percentage min(used / total * 100, 100), isOverBudget
\* used > total, remaining max(total - used, 0) and overspent
\* max(used - total, 0); remaining and overspent are never both positive and
\* isOverBudget is true exactly when overspent > 0.
C18_BudgetArithmetic ==
    LET budget == getStats(transactions, settings).budget
        configured == IF "monthlyBudget" \in DOMAIN settings
                      THEN settings.monthlyBudget ELSE 0
    IN /\ budget.used = SumOfAmounts(transactions)
       /\ budget.total = IF configured = 0 THEN 500000 ELSE configured
       /\ (budget.total > 0 /\ budget.used <= budget.total) =>
             budget.percentage = Quotient(budget.used * 100, budget.total)
       /\ (budget.total > 0 /\ budget.used > budget.total) =>
             budget.percentage = Quotient(100, 1)
       /\ ~QuotientLess(Quotient(100, 1), budget.percentage)
       /\ budget.isOverBudget = (budget.used > budget.total)
       /\ budget.remaining = IF budget.total > budget.used
                             THEN budget.total - budget.used ELSE 0
       /\ budget.overspent = IF budget.used > budget.total
                             THEN budget.used - budget.total ELSE 0
       /\ ~(budget.remaining > 0 /\ budget.overspent > 0)
       /\ budget.isOverBudget = (budget.overspent > 0)

\* the amounts of the list add up to exactly the budget that was set
C18_Witness ==
    /\ transactions # <<>>
    /\ settings # <<>>
    /\ settings.monthlyBudget = 3500
    /\ getStats(transactions, settings).budget.used = 3500
    /\ ~getStats(transactions, settings).budget.isOverBudget


\* C19: importTransactions(list) puts the given records, as they are and in
\* their order, before the records of the canonical list, drops none of them
\* for an id the list already has, changes no record of the list, recomputes
\* the view, persists the list and notifies the subscribers.
C19_ImportPrependsVerbatim ==
    [][ lastOp'.op = "importTransactions" =>
          /\ transactions' = lastOp'.given \o transactions
          /\ filteredTransactions'
                = applySort(Selected(transactions', currentSearch'.regex),
                            currentSort')
          /\ lastOp'.saved = <<transactions'>>
          /\ localStorage'[STORAGE_KEY] = JSONstringify(transactions')
          /\ lastOp'.notified = listeners
          /\ ~lastOp'.threw ]_vars

\* an import of two records has happened, the first with the id of a record
\* the list had
C19_Witness ==
    /\ lastOp.op = "importTransactions"
    /\ Len(lastOp.given) = 2
    /\ Len(transactions) > 2
    /\ \E i \in DOMAIN transactions : i > 2 /\ transactions[i].id = lastOp.given[1].id

\* a file whose import fails: its text does not parse to an object with an
\* array under transactions, or no item of the array is a record with id,
\* description, category and date and an amount that is a number
Fails(file) ==
    \/ file.text # "object"
    \/ file.transactions # "array"
    \/ \A i \in DOMAIN file.items :
          \/ ~file.items[i].isObject
          \/ file.items[i].typeofAmount # "number"
          \/ file.items[i].value.id = 0
          \/ file.items[i].value.description = <<>>
          \/ file.items[i].value.category = <<>>
          \/ file.items[i].value.date = <<>>

\* C20: when the read of a file that fails is over, one failure is shown and
\* nothing is merged: the canonical list, the view and the persisted data are
\* as before, and no subscriber is notified.
C20_FailedImportMergesNothing ==
    [][ \A i \in DOMAIN reading :
          (reading' = RemoveAt(reading, i) /\ Fails(reading[i].file)) =>
             /\ lastOp'.op = "handleImport"
             /\ lastOp'.given = <<reading[i].file>>
             /\ Len(lastOp'.shown) = 1
             /\ lastOp'.shown[1].type = "error"
             /\ lastOp'.notified = <<>>
             /\ lastOp'.saved = <<>>
             /\ UNCHANGED <<transactions, filteredTransactions, localStorage, settings,
                            currentSearch, currentSort>> ]_vars

\* the import of a file whose records are all rejected has failed, with
\* records in the list
C20_Witness ==
    /\ lastOp.op = "handleImport"
    /\ Len(lastOp.shown) = 1
    /\ lastOp.given[1].transactions = "array"
    /\ Len(lastOp.given[1].items) = 2
    /\ \A i \in DOMAIN lastOp.given[1].items : lastOp.given[1].items[i].isObject
    /\ Len(transactions) > 0


\* the records of a file that pass: objects with id, description, category
\* and date and an amount that is a number, in the order of the file
Passing(file) ==
    LET items == SelectSeq(file.items,
                           LAMBDA item : /\ item.isObject
                                         /\ item.typeofAmount = "number"
                                         /\ item.value.id # 0
                                         /\ item.value.description # <<>>
                                         /\ item.value.category # <<>>
                                         /\ item.value.date # <<>>)
    IN [k \in DOMAIN items |-> items[k].value]

\* the calls that change the canonical list
Mutations == {"addTransaction", "updateTransaction", "deleteTransaction", "clearAll"}

\* C21: the start of a read neither writes the store nor calls a subscriber, a
\* mutation that runs while a read is pending leaves the read pending, and the
\* end of the read of a file of objects with a record that passes puts the
\* records that pass before the canonical list as the mutations left it.
C21_ImportKeepsInterleavedMutations ==
    [][ /\ Len(reading') > Len(reading) =>
              /\ lastOp'.notified = <<>>
              /\ lastOp'.saved = <<>>
              /\ UNCHANGED <<transactions, filteredTransactions, localStorage, settings,
                             currentSearch, currentSort>>
        /\ lastOp'.op \in Mutations => reading' = reading
        /\ \A i \in DOMAIN reading :
              ( /\ reading' = RemoveAt(reading, i)
                /\ Passing(reading[i].file) # <<>>
                /\ \A k \in DOMAIN reading[i].file.items : reading[i].file.items[k].isObject )
              => /\ lastOp'.op = "importTransactions"
                 /\ lastOp'.given = Passing(reading[i].file)
                 /\ transactions' = Passing(reading[i].file) \o transactions ]_vars

\* an import has ended whose read was pending when a record of the list was
\* added or updated
C21_Witness ==
    /\ lastOp.op = "importTransactions"
    /\ \E j \in DOMAIN lastOp.pending :
          /\ Passing(lastOp.pending[j].file) = lastOp.given
          /\ \E k \in DOMAIN transactions :
                /\ k > Len(lastOp.given)
                /\ transactions[k].updatedAt >= lastOp.pending[j].since


\* C22: init ends without an error whatever localStorage holds: the canonical
\* list is a list, empty when nothing is stored or the stored text does not
\* parse, the settings have every key of the defaults, the view is a copy of
\* the list and the subscribers are called.
C22_InitNeverFails ==
    [][ lastOp'.op = "init" =>
          /\ ~lastOp'.threw
          /\ Iterable(transactions')
          /\ (localStorage[STORAGE_KEY].kind = "absent" \/ ~localStorage[STORAGE_KEY].parses)
                => transactions' = <<>>
          /\ DOMAIN DEFAULT_SETTINGS \subseteq DOMAIN settings'
          /\ filteredTransactions' = transactions'
          /\ lastOp'.notified = listeners ]_vars


\* C23: in every state the amount of every record of the canonical list is a
\* number from 0 to 1,000,000, the records that were imported included.
C23_AmountsAreInRange ==
    started =>
       \A i \in DOMAIN transactions :
          /\ transactions[i].amount # NaN
          /\ transactions[i].amount >= 0
          /\ transactions[i].amount <= AmountLimit


\* the whole part and the fraction of a text with at most one "."
WholePart(s) == IF DotIndex(s) = 0 THEN s ELSE SubSeq(s, 1, DotIndex(s) - 1)

FractionPart(s) == IF DotIndex(s) = 0 THEN <<>> ELSE SubSeq(s, DotIndex(s) + 1, Len(s))

\* the value, in thousandths, of digits with a fraction of at most two digits
DecimalValue(s) ==
    NatOf(WholePart(s)) * 1000 + NatOf(SubSeq(FractionPart(s) \o <<"0", "0">>, 1, 2)) * 10

\* a decimal without a sign and without leading zeros, of at most two
\* fraction digits and of a value of at most 1,000,000
AcceptableAmount(s) ==
    /\ \A i \in DOMAIN s : s[i] \in DigitSet \cup {"."}
    /\ Cardinality({ i \in DOMAIN s : s[i] = "." }) <= 1
    /\ WholePart(s) # <<>>
    /\ Len(WholePart(s)) > 1 => WholePart(s)[1] # "0"
    /\ DotIndex(s) # 0 => Len(FractionPart(s)) \in {1, 2}
    /\ DecimalValue(s) <= 1000000 * 1000

C25_AmountTableAgrees ==
    [][ (lastOp'.op = "validateField" /\ lastOp'.given = <<"amount">>) =>
          \A i \in DOMAIN testPatterns.amount :
             testPatterns.amount[i].input = lastOp'.formData.amount =>
                lastOp'.returned[1].valid = testPatterns.amount[i].expected ]_vars


\* C26: with a matcher set, after every recomputation the view holds exactly
\* the records of the canonical list whose text holds a match of the pattern,
\* however many records come before them and however often the matcher was
\* used.
C26_ViewHoldsEveryMatch ==
    ( /\ currentSearch.regex.kind = "regexp"
      /\ (lastOp.op \in {"setSearch", "setSort"} \/ Completed(lastOp)) )
    => \A i \in DOMAIN transactions :
          RegExpTest([currentSearch.regex EXCEPT !.lastIndex = 0],
                     Searchable(transactions[i])).matched
          <=> transactions[i] \in Range(filteredTransactions)


\* C27: a mutation that succeeds validates, changes the canonical list,
\* recomputes the view, writes the list and then calls the listeners: what was
\* added passed the validation, the list handed to the write is the changed
\* list, and every listener subscribed at that time is called once, in the
\* order of subscription, and finds the changed list, the recomputed view and
\* localStorage as the write left it.
C27_MutationStepsInOrder ==
    [][ Completed(lastOp') =>
          /\ lastOp'.op = "addTransaction" => Validated[lastOp'.formData].isValid
          /\ lastOp'.saved = <<transactions'>>
          /\ filteredTransactions'
                = applySort(Selected(transactions', currentSearch'.regex), currentSort')
          /\ lastOp'.notified = listeners
          /\ Len(lastOp'.observed) = Len(listeners)
          /\ \A i \in DOMAIN lastOp'.observed :
                /\ lastOp'.observed[i].listener = listeners[i]
                /\ lastOp'.observed[i].transactions = transactions'
                /\ lastOp'.observed[i].filteredTransactions = filteredTransactions'
                /\ lastOp'.observed[i].stored = localStorage'[STORAGE_KEY]
          /\ UNCHANGED <<listeners, reading>> ]_vars

\* a record was added and written while three listeners were subscribed, the
\* last two not the same
C27_Witness ==
    /\ lastOp.op = "addTransaction"
    /\ ~lastOp.threw
    /\ lastOp.logged = <<>>
    /\ Len(listeners) = 3
    /\ listeners[2] # listeners[3]
    /\ Len(lastOp.observed) = 3
    /\ lastOp.observed[3].stored = JSONstringify(transactions)


\* C28: getStats is a read of the canonical list and not of the view: the
\* call changes nothing of the store, writes nothing, calls no listener, and
\* its total and totalAmount are the length and the sum of the amounts of
\* the canonical list under every search and sort.
C28_GetStatsReadsCanonicalList ==
    [][lastOp'.op = "getStats" =>
         /\ UNCHANGED <<transactions, settings, filteredTransactions, currentSearch,
                        currentSort, editingId, listeners, localStorage, now, started,
                        reading>>
         /\ lastOp'.notified = <<>>
         /\ lastOp'.saved = <<>>
         /\ ~lastOp'.threw
         /\ lastOp'.returned[1].total = Len(transactions)
         /\ lastOp'.returned[1].totalAmount = SumOfAmounts(transactions)]_vars

\* getStats was called while a search hides a part of the list
C28_Witness ==
    /\ lastOp.op = "getStats"
    /\ currentSearch.regex # NullRegex
    /\ Len(filteredTransactions) < Len(transactions)
    /\ lastOp.returned[1].total = Len(transactions)
    /\ lastOp.returned[1].totalAmount > SumOfAmounts(filteredTransactions)


\* C29: the topCategory of getStats is '-' when the canonical list is empty;
\* otherwise it is a category of the list with the greatest number of
\* transactions, and among the categories with that number the one whose
\* first transaction comes earliest in the canonical list.
C29_TopCategoryIsEarliestOfMostFrequent ==
    started =>
        LET top == getStats(transactions, settings).topCategory
            CountOf(c) == Cardinality({ i \in DOMAIN transactions :
                                          transactions[i].category = c })
            FirstOf(c) == CHOOSE i \in DOMAIN transactions :
                             /\ transactions[i].category = c
                             /\ \A j \in 1..(i - 1) : transactions[j].category # c
        IN IF transactions = <<>> THEN top = <<"-">>
           ELSE /\ \E i \in DOMAIN transactions : transactions[i].category = top
                /\ \A i \in DOMAIN transactions :
                      \/ CountOf(transactions[i].category) < CountOf(top)
                      \/ /\ CountOf(transactions[i].category) = CountOf(top)
                         /\ FirstOf(top) <= FirstOf(transactions[i].category)


\* the search state holds a compiled matcher
HoldsMatcher(regex) == regex.kind = "regexp"

\* the search state holds an error marker
HoldsError(regex) == regex.kind = "error" \/ regex.error # ""

\* C30: the search state never holds both a compiled matcher and an error
\* marker, and after setSearch('') it holds neither and the view contains
\* every transaction of the canonical list.
C30_EmptyPatternIsNoFilter ==
    [][/\ ~(HoldsMatcher(currentSearch'.regex) /\ HoldsError(currentSearch'.regex))
       /\ (lastOp'.op = "setSearch" /\ currentSearch'.pattern = <<>>) =>
             /\ ~HoldsMatcher(currentSearch'.regex)
             /\ ~HoldsError(currentSearch'.regex)
             /\ Len(filteredTransactions') = Len(transactions')
             /\ \A i \in DOMAIN transactions' :
                   Cardinality({ j \in DOMAIN filteredTransactions' :
                                   filteredTransactions'[j] = transactions'[i] })
                   = Cardinality({ j \in DOMAIN transactions' :
                                     transactions'[j] = transactions'[i] })]_vars

\* setSearch('') was called on a list of several records shown in an order
\* other than that of the list
C30_Witness ==
    /\ lastOp.op = "setSearch"
    /\ currentSearch.pattern = <<>>
    /\ currentSearch.regex = NullRegex
    /\ Len(transactions) >= 2
    /\ Len(filteredTransactions) = Len(transactions)
    /\ filteredTransactions # transactions


\* C31: for every description validateDescription accepts, the cleaned value
\* is the input itself; for every category validateCategory accepts, the
\* cleaned category is accepted and cleaning it again gives the same text.
C31_CleaningIsIdempotent ==
    (lastOp.op = "validateField" /\ lastOp.returned[1].valid) =>
        /\ lastOp.given = <<"description">> =>
              lastOp.returned[1].cleaned = lastOp.formData.description
        /\ lastOp.given = <<"category">> =>
              /\ validateCategory(lastOp.returned[1].cleaned).valid
              /\ validateCategory(lastOp.returned[1].cleaned).cleaned
                 = lastOp.returned[1].cleaned


\* the messages of the warnings a validation reports
Reported(validation) == { validation.warnings[f] : f \in DOMAIN validation.warnings }

\* C32: validateTransaction reports the duplicate-words warning for every
\* description with duplicate adjacent words and the beverage warning for
\* every description with a beverage keyword, both when the description has
\* both, and a warning never makes isValid false.
C32_WarningsFlagDuplicatesAndBeverages ==
    lastOp.op = "validateTransaction" =>
        LET validation == lastOp.returned[1]
            description == lastOp.formData.description
        IN /\ hasDuplicateWords(description) =>
                 "Duplicate words detected" \in Reported(validation)
           /\ isBeverageTransaction(description) =>
                 "Beverage purchase detected" \in Reported(validation)
           /\ validation.isValid = (DOMAIN validation.errors = {})


\* C33: in every reachable state the view is a sub-list of the canonical
\* list: every record of the view is a record of the canonical list, with
\* the same id and field values, and is in the view no more times than it is
\* in the canonical list.
C33_ViewIsSubListOfCanonical ==
    started =>
        \A j \in DOMAIN filteredTransactions :
           Cardinality({ k \in DOMAIN filteredTransactions :
                           filteredTransactions[k] = filteredTransactions[j] })
           <= Cardinality({ i \in DOMAIN transactions :
                              transactions[i] = filteredTransactions[j] })

\* a mutation ended while a search shows a part of the list
C33_Witness ==
    /\ lastOp.op \in {"addTransaction", "updateTransaction", "deleteTransaction"}
    /\ ~lastOp.threw
    /\ lastOp.saved # <<>>
    /\ HoldsMatcher(currentSearch.regex)
    /\ filteredTransactions # <<>>
    /\ Len(filteredTransactions) < Len(transactions)


\* C34: whenever editingId is not null it is the id of a transaction of the
\* canonical list, and a form submitted while editingId is set updates that
\* record and never fails with 'Transaction not found'.
C34_EditingIdNamesARecord ==
    /\ editingId # 0 => \E i \in DOMAIN transactions : transactions[i].id = editingId
    /\ (lastOp.op = "handleFormSubmit" /\ lastOp.id # 0) =>
          lastOp.error.message # "Transaction not found"


\* C35: when the function subscribe(listener) returned is called, the
\* listener leaves the list of listeners and the others stay, each as often
\* and in the order as before; every later notification calls the listeners
\* of that list, each registration once and in order, so the listener is not
\* called again and the others are.
C35_UnsubscribedIsNotInvoked ==
    [][ /\ lastOp'.op = "unsubscribe" =>
              /\ lastOp'.given[1] \notin Range(listeners')
              /\ listeners' = SelectSeq(listeners, LAMBDA l : l # lastOp'.given[1])
              /\ lastOp'.notified = <<>>
        /\ lastOp'.op \notin {"subscribe", "unsubscribe"} =>
              /\ listeners' = listeners
              /\ lastOp'.notified \in {<<>>, listeners}
              /\ Completed(lastOp') => lastOp'.notified = listeners ]_vars

\* a listener was unsubscribed, and the listener of the page and another one
\* stay in the list of a store that holds records
C35_Witness ==
    /\ lastOp.op = "unsubscribe"
    /\ lastOp.given[1] \notin Range(listeners)
    /\ Len(listeners) = 2
    /\ listeners[1] = "ui"
    /\ listeners[2] \in Subscribers
    /\ started
    /\ transactions # <<>>


\* C36: recomputation is idempotent: setSort called with the current sort
\* key, or setSearch called with the current pattern and case flag, leaves a
\* view equal to the one before the call.
C36_RecomputationIsIdempotent ==
    [][ (\/ lastOp'.op = "setSort" /\ currentSort' = currentSort
         \/ /\ lastOp'.op = "setSearch"
            /\ currentSearch'.pattern = currentSearch.pattern
            /\ currentSearch'.caseSensitive = currentSearch.caseSensitive)
        => filteredTransactions' = filteredTransactions ]_vars


\* C37: a confirmed deleteTransaction(id) for an id that no record of the
\* canonical list has leaves the list, and so its length, unchanged, and
\* still returns true, writes the list to localStorage and calls the
\* listeners.
C37_DeleteOfAbsentIdStillSucceeds ==
    [][ (/\ lastOp'.op = "deleteTransaction"
         /\ lastOp'.confirmed
         /\ ~Present(transactions, lastOp'.id))
        => /\ transactions' = transactions
           /\ lastOp'.returned = <<TRUE>>
           /\ ~lastOp'.threw
           /\ lastOp'.saved = <<transactions>>
           /\ localStorage'[STORAGE_KEY] = JSONstringify(transactions)
           /\ lastOp'.notified = listeners
           /\ listeners # <<>> ]_vars

\* a confirmed deleteTransaction was given an id that no call of generateId
\* has returned yet, while the list holds records
C37_Witness ==
    /\ lastOp.op = "deleteTransaction"
    /\ lastOp.confirmed
    /\ lastOp.id = generateId
    /\ ~Present(transactions, lastOp.id)
    /\ lastOp.returned = <<TRUE>>
    /\ lastOp.saved = <<transactions>>
    /\ lastOp.notified # <<>>
    /\ Len(transactions) >= 2


\* C38: when the pattern given to the search handler of the page does not
\* compile, the handler shows the error and does not call the store: the
\* search state and the view stay as they were, a filter applied before
\* included.
C38_InvalidPatternLeavesSearchAsItWas ==
    [][ (lastOp'.op = "handleSearch" /\ RegExpSyntaxError(lastOp'.given[1]) # "")
        => /\ lastOp'.shown # <<>>
           /\ lastOp'.notified = <<>>
           /\ UNCHANGED <<transactions, settings, filteredTransactions, currentSearch,
                          currentSort, editingId, listeners, localStorage, now, started,
                          reading>> ]_vars

\* the handler was given a pattern that does not compile while a search that
\* hides a part of the list is in effect
C38_Witness ==
    /\ lastOp.op = "handleSearch"
    /\ RegExpSyntaxError(lastOp.given[1]) # ""
    /\ lastOp.shown # <<>>
    /\ HoldsMatcher(currentSearch.regex)
    /\ currentSearch.pattern # lastOp.given[1]
    /\ filteredTransactions # <<>>
    /\ Len(filteredTransactions) < Len(transactions)

=============================================================================
